---- MODULE Spec2Model ----
(***************************************************************************)
(* The markdown -> Typst transpiler of cv-check (src/src/render/pdf.rs):   *)
(* the page-break marker preprocessor, the event transpiler               *)
(* (render_markdown_as_typst and its handlers) and the section grouper     *)
(* (wrap_h2_sections).                                                     *)
(*                                                                         *)
(* Strings are sequences of tokens.  A token is a TLA+ string standing for *)
(* the same characters in the Rust string; the concrete string is the      *)
(* concatenation of its tokens.  Every character the code looks at         *)
(* individually ('@', '#', '$', '(', the newline) is a token of its own,   *)
(* and every pattern the code searches for begins and ends on a token      *)
(* boundary, so a substring search of the code is a sub-sequence search    *)
(* here.                                                                   *)
(***************************************************************************)
EXTENDS Integers, Sequences, FiniteSets, TLC

VARIABLES
    pc,             \* position in generate_typst_source / wrap_h2_sections
    theme,          \* the ColorTheme of this render
    content,        \* the document content: a sequence of source blocks
    enhanced_content,        \* render_markdown_as_typst: the promoted content
    content_with_pagebreaks, \* render_markdown_as_typst: with the sentinel set
    events,         \* the events the parser still has to yield
    consumed,       \* the events the render loop has consumed, in order
    output,         \* typst_content: the transpiler's output string
    ctx,            \* RenderContext: list_depth, in_heading, heading_level
    lines,          \* wrap_h2_sections: content.lines()
    i,              \* wrap_h2_sections: the scan index (1-based here)
    in_h2_section,  \* wrap_h2_sections: the "block open" flag
    result          \* wrap_h2_sections: the result string

vars == <<pc, theme, content, enhanced_content, content_with_pagebreaks,
          events, consumed, output, ctx,
          lines, i, in_h2_section, result>>

(***************************************************************************)
(* Bounds of the model.                                                    *)
(***************************************************************************)
MaxBlocks == 3
MaxLines == 5

\* the longest event sequence handed to the transpiler on its own
MaxEvents == 3

\* the most lines of a raw text handed to the structural promoter
MaxRawLines == 3

\* the most style lookups made against one theme
MaxCalls == 2

\* the most blocks of a document rendered in a series of renders
MaxRenderBlocks == 2

(***************************************************************************)
(* String primitives (Rust str methods on token sequences).               *)
(***************************************************************************)
NL == "\n"

Whitespace == {" ", NL}

\* str::contains(pat)
Contains(s, pat) ==
    \E k \in 1..(Len(s) - Len(pat) + 1) : SubSeq(s, k, k + Len(pat) - 1) = pat

\* the occurrences of pat in s (str::matches(pat).count(), pat not self-overlapping)
CountOcc(s, pat) ==
    Cardinality({k \in 1..(Len(s) - Len(pat) + 1) : SubSeq(s, k, k + Len(pat) - 1) = pat})

\* str::find(c): index of the first token c, 0 when there is none
Find(s, c) ==
    IF \E k \in 1..Len(s) : s[k] = c
    THEN CHOOSE k \in 1..Len(s) : s[k] = c /\ \A j \in 1..(k - 1) : s[j] # c
    ELSE 0

\* str::trim()
Trim(s) ==
    LET keep == {k \in 1..Len(s) : s[k] \notin Whitespace}
    IN  IF keep = {} THEN <<>>
        ELSE LET lo == CHOOSE k \in keep : \A j \in keep : k <= j
                 hi == CHOOSE k \in keep : \A j \in keep : j <= k
             IN  SubSeq(s, lo, hi)

\* str::replace(pat, to): every non-overlapping occurrence, left to right
RECURSIVE ReplaceFrom(_, _, _, _)
ReplaceFrom(s, k, pat, to) ==
    IF k > Len(s) THEN <<>>
    ELSE IF k + Len(pat) - 1 <= Len(s) /\ SubSeq(s, k, k + Len(pat) - 1) = pat
         THEN to \o ReplaceFrom(s, k + Len(pat), pat, to)
         ELSE <<s[k]>> \o ReplaceFrom(s, k + 1, pat, to)

Replace(s, pat, to) == ReplaceFrom(s, 1, pat, to)

\* str::lines(): split at newlines; a trailing newline ends the last line
Lines(s) ==
    LET IsNewlineAt(k) == s[k] = NL
        nl == SelectSeq([k \in 1..Len(s) |-> k], IsNewlineAt)
        n == Len(nl)
        count == IF Len(s) > 0 /\ s[Len(s)] # NL THEN n + 1 ELSE n
        from(j) == IF j = 1 THEN 1 ELSE nl[j - 1] + 1
        to(j) == IF j <= n THEN nl[j] - 1 ELSE Len(s)
    IN  [j \in 1..count |-> SubSeq(s, from(j), to(j))]

(***************************************************************************)
(* Theme (src/src/themes/color.rs).  Option<T> is None or the value; an    *)
(* f32 is kept as the text `{}` formats it to.                             *)
(***************************************************************************)
None == "None"

classic ==
    [primary |-> "#2C3E50", accent |-> "#8B0000", text |-> "#2C2C2C",
     h1_color |-> None, h2_color |-> None, h3_color |-> None,
     separator_thickness |-> None,
     h1_spacing_above |-> None, h1_spacing_below |-> None,
     h2_spacing_above |-> None, h2_spacing_below |-> None,
     h3_spacing_above |-> None, h3_spacing_below |-> None]

modern ==
    [primary |-> "#0066CC", accent |-> "#FF6B35", text |-> "#333333",
     h1_color |-> None, h2_color |-> "#607D8B", h3_color |-> "#424242",
     separator_thickness |-> "1",
     h1_spacing_above |-> "2.5", h1_spacing_below |-> "0.8",
     h2_spacing_above |-> "1.2", h2_spacing_below |-> "0.8",
     h3_spacing_above |-> "1", h3_spacing_below |-> "0.8"]

Themes == {classic, modern}

to_typst_rgb(t, color_field) ==
    LET hex == CASE color_field = "primary" -> t.primary
                 [] color_field = "accent" -> t.accent
                 [] color_field = "text" -> t.text
                 [] OTHER -> "#000000"
    IN  <<"rgb(\"", hex, "\")">>

get_h1_color(t) ==
    IF t.h1_color = None THEN to_typst_rgb(t, "text") ELSE <<"rgb(\"", t.h1_color, "\")">>

\* a plausible slip: the level-2 colour falls back to the accent colour
get_h2_color_FallsBackToAccent(t) ==
    IF t.h2_color = None THEN to_typst_rgb(t, "accent") ELSE <<"rgb(\"", t.h2_color, "\")">>

get_h2_color(t) ==
    IF t.h2_color = None THEN to_typst_rgb(t, "primary") ELSE <<"rgb(\"", t.h2_color, "\")">>

get_h3_color(t) ==
    IF t.h3_color = None THEN to_typst_rgb(t, "text") ELSE <<"rgb(\"", t.h3_color, "\")">>

get_separator_thickness(t) ==
    IF t.separator_thickness = None THEN "2" ELSE t.separator_thickness

get_h1_spacing_above(t) == IF t.h1_spacing_above = None THEN "1.5" ELSE t.h1_spacing_above

get_h1_spacing_below(t) == IF t.h1_spacing_below = None THEN "0.8" ELSE t.h1_spacing_below

get_h2_spacing_above(t) == IF t.h2_spacing_above = None THEN "1.2" ELSE t.h2_spacing_above

get_h2_spacing_below(t) == IF t.h2_spacing_below = None THEN "0.8" ELSE t.h2_spacing_below

get_h3_spacing_above(t) == IF t.h3_spacing_above = None THEN "0.8" ELSE t.h3_spacing_above

get_h3_spacing_below(t) == IF t.h3_spacing_below = None THEN "0.6" ELSE t.h3_spacing_below

\* the style of a heading level as the transpiler reads it off the theme: the
\* level's colour and spacings, and the separator thickness for level 1
ThemeStyle(level, t) ==
    CASE level = 1 ->
           [color |-> get_h1_color(t),
            spacing_above |-> get_h1_spacing_above(t),
            spacing_below |-> get_h1_spacing_below(t),
            separator_thickness |-> get_separator_thickness(t)]
      [] level = 2 ->
           [color |-> get_h2_color(t),
            spacing_above |-> get_h2_spacing_above(t),
            spacing_below |-> get_h2_spacing_below(t)]
      [] level = 3 ->
           [color |-> get_h3_color(t),
            spacing_above |-> get_h3_spacing_above(t),
            spacing_below |-> get_h3_spacing_below(t)]

(***************************************************************************)
(* Events of the markdown parser (pulldown_cmark::Event).  One record      *)
(* shape for all: kind is the Event variant, tag the Tag / TagEnd variant, *)
(* level the heading level (0 when there is none), s the string payload.   *)
(***************************************************************************)
Start(tag) == [kind |-> "Start", tag |-> tag, level |-> 0, s |-> <<>>]

End(tag) == [kind |-> "End", tag |-> tag, level |-> 0, s |-> <<>>]

StartHeading(l) == [kind |-> "Start", tag |-> "Heading", level |-> l, s |-> <<>>]

EndHeading(l) == [kind |-> "End", tag |-> "Heading", level |-> l, s |-> <<>>]

StartLink(url) == [kind |-> "Start", tag |-> "Link", level |-> 0, s |-> url]

Text(s) == [kind |-> "Text", tag |-> "", level |-> 0, s |-> s]

Code(s) == [kind |-> "Code", tag |-> "", level |-> 0, s |-> s]

Html(s) == [kind |-> "Html", tag |-> "", level |-> 0, s |-> s]

SoftBreak == [kind |-> "SoftBreak", tag |-> "", level |-> 0, s |-> <<>>]

HardBreak == [kind |-> "HardBreak", tag |-> "", level |-> 0, s |-> <<>>]

\* InlineHtml, Rule, FootnoteReference, TaskListMarker, ...: the `_ => {}` arm
OtherEvent(name) == [kind |-> name, tag |-> "", level |-> 0, s |-> <<>>]

(***************************************************************************)
(* The strings of the transpiler.                                          *)
(***************************************************************************)
Sentinel == "TYPST_PAGEBREAK_MARKER"

\* "\\pagebreak": the author's directive in the document text
BackslashPagebreak == <<"\\", "pagebreak">>

\* "<!-- pagebreak -->"
PagebreakComment == <<"<!--", " ", "pagebreak", " ", "-->">>

\* "#pagebreak()"
PagebreakDirective == <<"#", "pagebreak", "(", ")">>

\* "#v({x}em)"
VSpace(x) == <<"#", "v", "(", x, "em", ")">>

\* "#block(above: 0em, below: {x}em)["
BlockOpen(x) == <<"#", "block(above: 0em, below:", " ", x, "em", ")", "[">>

\* "  #text(size: {size}, weight: \"{weight}\", fill: {fill})["
TextRun(sizeweight, fill) == <<"  ", "#", sizeweight, ", fill: ">> \o fill \o <<")", "[">>

Bold14 == "text(size: 14pt, weight: \"bold\""

Regular14 == "text(size: 14pt, weight: \"regular\""

Bold16 == "text(size: 16pt, weight: \"bold\""

Semibold12 == "text(size: 12pt, weight: \"semibold\""

Medium11 == "text(size: 11pt, weight: \"medium\""

\* "  ".repeat(n)
RECURSIVE Repeat(_, _)
Repeat(tok, n) == IF n <= 0 THEN <<>> ELSE <<tok>> \o Repeat(tok, n - 1)

\* usize::MAX + 1.  The code's usize has 64 bits; 30 bits stand for them, the
\* widest power of two whose arithmetic stays within TLC integers.
UsizeModulus == 2 ^ 30

\* Characters a TLA+ string cannot hold: the bullet glyph U+2022, the code
\* fence of three backticks, and the single backtick.
Bullet == "<U+2022>"

Fence == "<3 backticks>"

Backtick == "<backtick>"

\* "  ".repeat(n) panics (capacity overflow) when 2 * n leaves the usize range
RepeatLimit == UsizeModulus \div 2

RenderContextNew == [list_depth |-> 0, in_heading |-> FALSE, heading_level |-> 1]

(***************************************************************************)
(* handle_start_tag: the text written (w), the context after (ctx), and    *)
(* panic: "no"; "checked" when an unsigned addition or subtraction left    *)
(* the usize range (a panic in a build with overflow checks, the wrapped   *)
(* value in one without); "always" when every build panics.              *)
(***************************************************************************)
HeadingStartText(level, t) ==
    CASE level = 1 ->
           <<NL>> \o VSpace(get_h1_spacing_above(t)) \o
           <<NL, "#", "block(", NL,
             "  above: 0em,", NL,
             "  below: ", get_h1_spacing_below(t), "em,", NL,
             "  breakable: false,", NL,
             "  height: auto", NL,
             ")", "[", NL>> \o
           TextRun(Bold16, get_h1_color(t))
      [] level = 2 ->
           <<NL>> \o VSpace(get_h2_spacing_above(t)) \o <<NL>> \o
           BlockOpen(get_h2_spacing_below(t)) \o <<NL>>
      [] level = 3 ->
           <<NL>> \o VSpace(get_h3_spacing_above(t)) \o <<NL>> \o
           BlockOpen(get_h3_spacing_below(t)) \o <<NL>> \o
           TextRun(Semibold12, get_h3_color(t))
      [] OTHER ->
           <<NL>> \o VSpace("0.5") \o <<NL>> \o BlockOpen("0.2") \o
           <<NL, "  ", "#", Medium11, ")", "[">>

\* a plausible slip: every list start writes the leading break
handle_start_tag_BreakPerList(ev, c, t) ==
    CASE ev.tag = "Heading" ->
           [w |-> HeadingStartText(ev.level, t),
            ctx |-> [c EXCEPT !.in_heading = TRUE, !.heading_level = ev.level],
            panic |-> "no"]
      [] ev.tag = "Paragraph" ->
           [w |-> IF c.list_depth = 0 THEN <<NL>> ELSE <<>>, ctx |-> c, panic |-> "no"]
      [] ev.tag = "List" ->
           [w |-> <<NL>>,
            ctx |-> [c EXCEPT !.list_depth = (c.list_depth + 1) % UsizeModulus],
            panic |-> IF c.list_depth + 1 >= UsizeModulus THEN "checked" ELSE "no"]
      [] ev.tag = "Item" ->
           IF c.list_depth = 0 \/ c.list_depth - 1 >= RepeatLimit
           THEN [w |-> <<>>, ctx |-> c, panic |-> "always"]
           ELSE [w |-> <<NL>> \o Repeat("  ", c.list_depth - 1) \o <<Bullet, " ">>,
                 ctx |-> c, panic |-> "no"]
      [] ev.tag \in {"Strong", "Emphasis"} ->
           [w |-> <<"*">>, ctx |-> c, panic |-> "no"]
      [] ev.tag = "Strikethrough" ->
           [w |-> <<"#", "strike", "[">>, ctx |-> c, panic |-> "no"]
      [] ev.tag = "Link" ->
           [w |-> <<"#", "link(\"">> \o ev.s \o <<"\")", "[">>, ctx |-> c, panic |-> "no"]
      [] ev.tag = "CodeBlock" ->
           [w |-> <<NL, Fence, NL>>, ctx |-> c, panic |-> "no"]
      [] ev.tag = "BlockQuote" ->
           [w |-> <<NL, "#", "quote", "[">>, ctx |-> c, panic |-> "no"]
      [] OTHER ->
           [w |-> <<>>, ctx |-> c, panic |-> "no"]

handle_start_tag(ev, c, t) ==
    CASE ev.tag = "Heading" ->
           [w |-> HeadingStartText(ev.level, t),
            ctx |-> [c EXCEPT !.in_heading = TRUE, !.heading_level = ev.level],
            panic |-> "no"]
      [] ev.tag = "Paragraph" ->
           [w |-> IF c.list_depth = 0 THEN <<NL>> ELSE <<>>, ctx |-> c, panic |-> "no"]
      [] ev.tag = "List" ->
           [w |-> IF (c.list_depth + 1) % UsizeModulus = 1 THEN <<NL>> ELSE <<>>,
            ctx |-> [c EXCEPT !.list_depth = (c.list_depth + 1) % UsizeModulus],
            panic |-> IF c.list_depth + 1 >= UsizeModulus THEN "checked" ELSE "no"]
      [] ev.tag = "Item" ->
           IF c.list_depth = 0 \/ c.list_depth - 1 >= RepeatLimit
           THEN [w |-> <<>>, ctx |-> c, panic |-> "always"]
           ELSE [w |-> <<NL>> \o Repeat("  ", c.list_depth - 1) \o <<Bullet, " ">>,
                 ctx |-> c, panic |-> "no"]
      [] ev.tag \in {"Strong", "Emphasis"} ->
           [w |-> <<"*">>, ctx |-> c, panic |-> "no"]
      [] ev.tag = "Strikethrough" ->
           [w |-> <<"#", "strike", "[">>, ctx |-> c, panic |-> "no"]
      [] ev.tag = "Link" ->
           [w |-> <<"#", "link(\"">> \o ev.s \o <<"\")", "[">>, ctx |-> c, panic |-> "no"]
      [] ev.tag = "CodeBlock" ->
           [w |-> <<NL, Fence, NL>>, ctx |-> c, panic |-> "no"]
      [] ev.tag = "BlockQuote" ->
           [w |-> <<NL, "#", "quote", "[">>, ctx |-> c, panic |-> "no"]
      [] OTHER ->
           [w |-> <<>>, ctx |-> c, panic |-> "no"]

(***************************************************************************)
(* handle_end_tag                                                          *)
(***************************************************************************)
\* a plausible slip: the text run is closed at the end of a level-2 heading too
HeadingEndText_ClosesRunAtH2(level, t) ==
    <<"]">> \o
    (IF level = 1
     THEN <<NL, "  ", "#", "line(length: 100%, stroke: ", get_separator_thickness(t), "pt + ">>
          \o to_typst_rgb(t, "accent") \o <<")", NL>>
     ELSE <<>>) \o
    <<"]", NL>> \o
    (IF level = 1 THEN VSpace("0.2") \o <<NL>> ELSE <<>>)

\* a plausible slip: the block is closed before the separator line is written
HeadingEndText_SeparatorAfterBlock(level, t) ==
    (IF level # 2 THEN <<"]">> ELSE <<>>) \o
    <<"]", NL>> \o
    (IF level = 1
     THEN <<NL, "  ", "#", "line(length: 100%, stroke: ", get_separator_thickness(t), "pt + ">>
          \o to_typst_rgb(t, "accent") \o <<")", NL>>
     ELSE <<>>) \o
    (IF level = 1 THEN VSpace("0.2") \o <<NL>> ELSE <<>>)

\* the text a heading end writes while in_heading is set
HeadingEndText(level, t) ==
    (IF level # 2 THEN <<"]">> ELSE <<>>) \o
    (IF level = 1
     THEN <<NL, "  ", "#", "line(length: 100%, stroke: ", get_separator_thickness(t), "pt + ">>
          \o to_typst_rgb(t, "accent") \o <<")", NL>>
     ELSE <<>>) \o
    <<"]", NL>> \o
    (IF level = 1 THEN VSpace("0.2") \o <<NL>> ELSE <<>>)

\* a plausible slip: the heading end is not guarded by in_heading
handle_end_tag_Unguarded(ev, c, t) ==
    CASE ev.tag = "Heading" ->
           [w |-> HeadingEndText(c.heading_level, t),
            ctx |-> [c EXCEPT !.in_heading = FALSE],
            panic |-> "no"]
      [] ev.tag = "Paragraph" ->
           [w |-> IF c.list_depth = 0 THEN <<NL>> ELSE <<>>, ctx |-> c, panic |-> "no"]
      [] ev.tag = "List" ->
           [w |-> IF (c.list_depth - 1) % UsizeModulus = 0 THEN <<NL>> ELSE <<>>,
            ctx |-> [c EXCEPT !.list_depth = (c.list_depth - 1) % UsizeModulus],
            panic |-> IF c.list_depth = 0 THEN "checked" ELSE "no"]
      [] ev.tag \in {"Strong", "Emphasis"} ->
           [w |-> <<"*">>, ctx |-> c, panic |-> "no"]
      [] ev.tag \in {"Strikethrough", "Link", "BlockQuote"} ->
           [w |-> <<"]">>, ctx |-> c, panic |-> "no"]
      [] ev.tag = "CodeBlock" ->
           [w |-> <<Fence, NL>>, ctx |-> c, panic |-> "no"]
      [] ev.tag = "Item" ->
           [w |-> <<NL>>, ctx |-> c, panic |-> "no"]
      [] OTHER ->
           [w |-> <<>>, ctx |-> c, panic |-> "no"]

handle_end_tag(ev, c, t) ==
    CASE ev.tag = "Heading" ->
           IF c.in_heading
           THEN [w |-> HeadingEndText(c.heading_level, t),
                 ctx |-> [c EXCEPT !.in_heading = FALSE],
                 panic |-> "no"]
           ELSE [w |-> <<>>, ctx |-> c, panic |-> "no"]
      [] ev.tag = "Paragraph" ->
           [w |-> IF c.list_depth = 0 THEN <<NL>> ELSE <<>>, ctx |-> c, panic |-> "no"]
      [] ev.tag = "List" ->
           [w |-> IF (c.list_depth - 1) % UsizeModulus = 0 THEN <<NL>> ELSE <<>>,
            ctx |-> [c EXCEPT !.list_depth = (c.list_depth - 1) % UsizeModulus],
            panic |-> IF c.list_depth = 0 THEN "checked" ELSE "no"]
      [] ev.tag \in {"Strong", "Emphasis"} ->
           [w |-> <<"*">>, ctx |-> c, panic |-> "no"]
      [] ev.tag \in {"Strikethrough", "Link", "BlockQuote"} ->
           [w |-> <<"]">>, ctx |-> c, panic |-> "no"]
      [] ev.tag = "CodeBlock" ->
           [w |-> <<Fence, NL>>, ctx |-> c, panic |-> "no"]
      [] ev.tag = "Item" ->
           [w |-> <<NL>>, ctx |-> c, panic |-> "no"]
      [] OTHER ->
           [w |-> <<>>, ctx |-> c, panic |-> "no"]

(***************************************************************************)
(* handle_text                                                             *)
(***************************************************************************)
\* a plausible slip: the third replace call is missing
Escape_NoDollar(s) ==
    Replace(Replace(s, <<"@">>, <<"\\", "@">>), <<"#">>, <<"\\", "#">>)

\* the three replace calls of handle_text: '@', then '#', then '$', each by a
\* backslash and itself
Escape(s) ==
    Replace(Replace(Replace(s, <<"@">>, <<"\\", "@">>), <<"#">>, <<"\\", "#">>),
            <<"$">>, <<"\\", "$">>)

\* "\n#pagebreak()\n\n"
PagebreakText == <<NL>> \o PagebreakDirective \o <<NL, NL>>

\* a plausible slip: the level-2 styling goes by heading_level alone
handle_text_IgnoresInHeading(s, c, t) ==
    IF Trim(s) = <<Sentinel>>
    THEN PagebreakText
    ELSE LET escaped == Escape(s)
             paren_start == Find(escaped, "(")
         IN  IF c.heading_level = 2
             THEN IF paren_start # 0
                  THEN TextRun(Bold14, get_h2_color(t)) \o
                       Trim(SubSeq(escaped, 1, paren_start - 1)) \o <<"]", " ">> \o
                       Tail(TextRun(Regular14, get_h2_color(t))) \o
                       SubSeq(escaped, paren_start, Len(escaped)) \o <<"]">>
                  ELSE TextRun(Bold14, get_h2_color(t)) \o escaped \o <<"]">>
             ELSE escaped

\* a plausible slip: the name part is not trimmed before it is written
handle_text_NoTrim(s, c, t) ==
    IF Trim(s) = <<Sentinel>>
    THEN PagebreakText
    ELSE LET escaped == Escape(s)
             paren_start == Find(escaped, "(")
         IN  IF c.in_heading /\ c.heading_level = 2
             THEN IF paren_start # 0
                  THEN TextRun(Bold14, get_h2_color(t)) \o
                       SubSeq(escaped, 1, paren_start - 1) \o <<"]", " ">> \o
                       Tail(TextRun(Regular14, get_h2_color(t))) \o
                       SubSeq(escaped, paren_start, Len(escaped)) \o <<"]">>
                  ELSE TextRun(Bold14, get_h2_color(t)) \o escaped \o <<"]">>
             ELSE escaped

handle_text(s, c, t) ==
    IF Trim(s) = <<Sentinel>>
    THEN PagebreakText
    ELSE LET escaped == Escape(s)
             paren_start == Find(escaped, "(")
         IN  IF c.in_heading /\ c.heading_level = 2
             THEN IF paren_start # 0
                  THEN TextRun(Bold14, get_h2_color(t)) \o
                       Trim(SubSeq(escaped, 1, paren_start - 1)) \o <<"]", " ">> \o
                       Tail(TextRun(Regular14, get_h2_color(t))) \o
                       SubSeq(escaped, paren_start, Len(escaped)) \o <<"]">>
                  ELSE TextRun(Bold14, get_h2_color(t)) \o escaped \o <<"]">>
             ELSE escaped

\* a plausible slip: the comparison without trim()
handle_html_NoTrim(s) == IF s = PagebreakComment THEN PagebreakText ELSE <<>>

\* the Event::Html arm of render_markdown_as_typst
handle_html(s) == IF Trim(s) = PagebreakComment THEN PagebreakText ELSE <<>>

\* process_pagebreak_markers on one string
process_pagebreak_markers(s) == Replace(s, BackslashPagebreak, <<Sentinel>>)

(***************************************************************************)
(* wrap_h2_sections: the section grouper.                                  *)
(***************************************************************************)
\* "]  // End of job entry block"
CloseMarker == <<"]", "  ", "// End of job entry block">>

\* "]  // End of job entry block before pagebreak"
CloseBeforePagebreak == CloseMarker \o <<" before pagebreak">>

\* "#block(breakable: false, height: auto)["
OpenMarker == <<"#", "block(breakable: false", ", height: auto", ")", "[">>

\* "#block(breakable: false)["
ReopenMarker == <<"#", "block(breakable: false", ")", "[">>

StartComment == <<"  ", "// Start of job entry">>

ContinueComment == <<"  ", "// Continue job entry after pagebreak">>

\* line.contains("#v(") && line.contains("em)")
IsVSpaceLine(line) == Contains(line, <<"#", "v", "(">>) /\ Contains(line, <<"em", ")">>)

\* the single-line #block pattern of a level-2 (and level 3..6) heading start
IsBlockOpenLine(line) ==
    Contains(line, <<"#", "block(above: 0em, below:">>) /\ Contains(line, <<"em", ")", "[">>)

\* a plausible slip: the look-ahead for the 14pt bold run is left out
IsH2At_NoLookahead(ls, k) ==
    /\ IsVSpaceLine(ls[k])
    /\ k + 1 <= Len(ls)
    /\ IsBlockOpenLine(ls[k + 1])

\* lines.iter().skip(i + 2).take(3): the 14pt bold run within three lines
IsH2At(ls, k) ==
    /\ IsVSpaceLine(ls[k])
    /\ k + 1 <= Len(ls)
    /\ IsBlockOpenLine(ls[k + 1])
    /\ \E j \in (k + 2)..(k + 4) : j <= Len(ls) /\ Contains(ls[j], <<Bold14>>)

\* a plausible slip: a look-ahead too short to reach the 16pt bold run
IsH1At_ShortLookahead(ls, k) ==
    /\ IsVSpaceLine(ls[k])
    /\ \E j \in 1..3 : k + j <= Len(ls) /\ Contains(ls[k + j], <<Bold16>>)

\* for j in 1..=10: the 16pt bold run within ten lines
IsH1At(ls, k) ==
    /\ IsVSpaceLine(ls[k])
    /\ \E j \in 1..10 : k + j <= Len(ls) /\ Contains(ls[k + j], <<Bold16>>)

\* a plausible slip: the directive's own line is not copied to the result
WrapPagebreak_DropsLine(line, st) ==
    [i |-> st.i + 1,
     in_h2_section |-> TRUE,
     result |-> st.result \o CloseBeforePagebreak \o <<NL, NL>>
                \o <<NL>> \o ReopenMarker \o <<NL>> \o ContinueComment \o <<NL>>]

\* a plausible slip: the block is not re-opened after the break
WrapPagebreak_NoReopen(line, st) ==
    [i |-> st.i + 1,
     in_h2_section |-> FALSE,
     result |-> st.result \o CloseBeforePagebreak \o <<NL, NL>> \o line \o <<NL>>]

\* a plausible slip: the directive is copied without closing the block first
WrapPagebreak_NoClose(line, st) ==
    [i |-> st.i + 1, in_h2_section |-> TRUE, result |-> st.result \o line \o <<NL>>]

\* the page-break branch of the loop, on the state st = [i, in_h2_section, result]
WrapPagebreak(line, st) ==
    [i |-> st.i + 1,
     in_h2_section |-> TRUE,
     result |-> st.result \o CloseBeforePagebreak \o <<NL, NL>> \o line \o <<NL>>
                \o <<NL>> \o ReopenMarker \o <<NL>> \o ContinueComment \o <<NL>>]

\* One iteration of the while loop, on the state st = [i, in_h2_section, result].
WrapIteration(ls, st) ==
    LET line == ls[st.i] IN
    IF st.in_h2_section /\ Contains(line, PagebreakDirective)
    THEN WrapPagebreak(line, st)
    ELSE LET is_h2 == IsH2At(ls, st.i)
             r1 == IF is_h2
                   THEN st.result
                        \o (IF st.in_h2_section THEN CloseMarker \o <<NL, NL>> ELSE <<>>)
                        \o OpenMarker \o <<NL>> \o StartComment \o <<NL>>
                   ELSE st.result
             f1 == st.in_h2_section \/ is_h2
             is_h1 == IsH1At(ls, st.i)
             r2 == IF is_h1 /\ f1 THEN r1 \o CloseMarker \o <<NL, NL>> ELSE r1
             f2 == IF is_h1 THEN FALSE ELSE f1
         IN  [i |-> st.i + 1, in_h2_section |-> f2, result |-> r2 \o line \o <<NL>>]

\* a plausible slip: the section still open at the end is left open
WrapFinish_NoClose(st) == st.result

\* after the loop: close any remaining open section
WrapFinish(st) ==
    IF st.in_h2_section THEN st.result \o CloseMarker \o <<NL>> ELSE st.result

RECURSIVE WrapLoop(_, _)
WrapLoop(ls, st) == IF st.i > Len(ls) THEN st ELSE WrapLoop(ls, WrapIteration(ls, st))

WrapStart == [i |-> 1, in_h2_section |-> FALSE, result |-> <<>>]

wrap_h2_sections(s) == WrapFinish(WrapLoop(Lines(s), WrapStart))

(***************************************************************************)
(* enhance_company_names: the structural promoter.  A raw text is a        *)
(* sequence of tokens; each character the five regexes name ("*", "_",     *)
(* "(", ")", ",", a blank, a newline) is a token of its own and every      *)
(* other token is a run of characters none of them names.                  *)
(***************************************************************************)
\* the token at position k, or the empty token past either end of the text
At(s, k) == IF k \in 1..Len(s) THEN s[k] ELSE ""

\* (?m)^ : the start of the text or the position after a newline
IsLineStart(s, p) == p = 1 \/ At(s, p - 1) = NL

\* (?m)$ : the end of the text or the position before a newline
IsLineEnd(s, p) == p = Len(s) + 1 \/ At(s, p) = NL

\* [^c]+ from p, greedy: the last position of the longest run without the
\* token c (p - 1 when the run is empty); the class takes newlines too
ClassEnd(s, p, c) ==
    LET stops == {k \in p..Len(s) : s[k] = c}
    IN  IF stops = {} THEN Len(s) ELSE (CHOOSE k \in stops : \A j \in stops : k <= j) - 1

\* \s* from p, greedy: the position after the longest run of whitespace
SpaceEnd(s, p) ==
    LET stops == {k \in p..Len(s) : s[k] \notin Whitespace}
    IN  IF stops = {} THEN Len(s) + 1 ELSE CHOOSE k \in stops : \A j \in stops : k <= j

\* .+ from p, greedy: the position after the rest of the line
DotEnd(s, p) ==
    LET stops == {k \in p..Len(s) : s[k] = NL}
    IN  IF stops = {} THEN Len(s) + 1 ELSE CHOOSE k \in stops : \A j \in stops : k <= j

NoMatch == [ok |-> FALSE, e |-> 0, g1 |-> <<>>, g2 |-> <<>>]

\* \s*$ from p: the whitespace is given back until the position is a line
\* end; the result is the set of the one position where the match ends
TrailEnd(s, p) ==
    LET ends == {j \in p..SpaceEnd(s, p) : IsLineEnd(s, j)}
    IN  {j \in ends : \A k \in ends : k <= j}

\* (?m)^\*\*([^*]+)\*\*\s*\(([^)]+)\)\s*$  tried at position p
MatchCompany(s, p) ==
    LET q1 == ClassEnd(s, p + 2, "*")
        w == SpaceEnd(s, q1 + 3)
        q2 == ClassEnd(s, w + 1, ")")
        t == TrailEnd(s, q2 + 2)
    IN  IF /\ IsLineStart(s, p) /\ At(s, p) = "*" /\ At(s, p + 1) = "*"
           /\ q1 >= p + 2 /\ At(s, q1 + 1) = "*" /\ At(s, q1 + 2) = "*"
           /\ At(s, w) = "(" /\ q2 >= w + 1 /\ At(s, q2 + 1) = ")"
           /\ t # {}
        THEN [ok |-> TRUE, e |-> CHOOSE j \in t : TRUE,
              g1 |-> SubSeq(s, p + 2, q1), g2 |-> SubSeq(s, w + 1, q2)]
        ELSE NoMatch

\* (?m)^_([^_]+)_,\s*(.+)$ and (?m)^\*([^*]+)\*,\s*(.+)$ with the delimiter d
MatchJob(s, p, d) ==
    LET q1 == ClassEnd(s, p + 1, d)
        starts == {j \in (q1 + 3)..SpaceEnd(s, q1 + 3) : j <= Len(s) /\ At(s, j) # NL}
        j0 == CHOOSE j \in starts : \A k \in starts : k <= j
    IN  IF /\ IsLineStart(s, p) /\ At(s, p) = d
           /\ q1 >= p + 1 /\ At(s, q1 + 1) = d /\ At(s, q1 + 2) = ","
           /\ starts # {}
        THEN [ok |-> TRUE, e |-> DotEnd(s, j0),
              g1 |-> SubSeq(s, p + 1, q1), g2 |-> SubSeq(s, j0, DotEnd(s, j0) - 1)]
        ELSE NoMatch

\* (?m)^_([^_]+)_\s*$ and (?m)^\*([^*]+)\*\s*$ with the delimiter d
MatchDegree(s, p, d) ==
    LET q1 == ClassEnd(s, p + 1, d)
        t == TrailEnd(s, q1 + 2)
    IN  IF /\ IsLineStart(s, p) /\ At(s, p) = d
           /\ q1 >= p + 1 /\ At(s, q1 + 1) = d
           /\ t # {}
        THEN [ok |-> TRUE, e |-> CHOOSE j \in t : TRUE,
              g1 |-> SubSeq(s, p + 1, q1), g2 |-> <<>>]
        ELSE NoMatch

\* the five regexes, in the order enhance_company_names applies them
PromotionRules ==
    <<"company", "job_underscore", "job_asterisk", "degree_underscore", "degree_asterisk">>

Match(rule, s, p) ==
    CASE rule = "company" -> MatchCompany(s, p)
      [] rule = "job_underscore" -> MatchJob(s, p, "_")
      [] rule = "job_asterisk" -> MatchJob(s, p, "*")
      [] rule = "degree_underscore" -> MatchDegree(s, p, "_")
      [] rule = "degree_asterisk" -> MatchDegree(s, p, "*")

\* the replacement strings "## $1 ($2)", "### **$1**, $2" and "### **$1**"
Replacement(rule, m) ==
    CASE rule = "company" ->
           <<"#", "#", " ">> \o m.g1 \o <<" ", "(">> \o m.g2 \o <<")">>
      [] rule \in {"job_underscore", "job_asterisk"} ->
           <<"#", "#", "#", " ", "*", "*">> \o m.g1 \o <<"*", "*", ",", " ">> \o m.g2
      [] rule \in {"degree_underscore", "degree_asterisk"} ->
           <<"#", "#", "#", " ", "*", "*">> \o m.g1 \o <<"*", "*">>

\* Regex::replace_all: the matches from left to right, none overlapping
RECURSIVE ReplaceAllFrom(_, _, _)
ReplaceAllFrom(rule, s, p) ==
    IF p > Len(s) THEN <<>>
    ELSE LET m == Match(rule, s, p)
         IN  IF m.ok
             THEN Replacement(rule, m) \o ReplaceAllFrom(rule, s, m.e)
             ELSE <<s[p]>> \o ReplaceAllFrom(rule, s, p + 1)

replace_all(rule, s) == ReplaceAllFrom(rule, s, 1)

enhance_company_names(s) ==
    replace_all("degree_asterisk",
        replace_all("degree_underscore",
            replace_all("job_asterisk",
                replace_all("job_underscore",
                    replace_all("company", s)))))

\* the lines of a text joined by newlines
RECURSIVE JoinLines(_)
JoinLines(ls) ==
    IF ls = <<>> THEN <<>>
    ELSE IF Len(ls) = 1 THEN ls[1]
    ELSE ls[1] \o <<NL>> \o JoinLines(Tail(ls))

\* every line of a text, an empty last line included
SplitLines(s) ==
    LET nl == SelectSeq([k \in 1..Len(s) |-> k], LAMBDA k : s[k] = NL)
        from(j) == IF j = 1 THEN 1 ELSE nl[j - 1] + 1
        to(j) == IF j <= Len(nl) THEN nl[j] - 1 ELSE Len(s)
    IN  [j \in 1..(Len(nl) + 1) |-> SubSeq(s, from(j), to(j))]

(***************************************************************************)
(* Documents.  The content handed to render_markdown_as_typst is kept as   *)
(* the sequence of its markdown blocks; a block has a kind, a heading      *)
(* level (0 when it is no heading) and its inline items, each an inline    *)
(* kind k with its source text s.                                          *)
(***************************************************************************)
Inl(k, s) == [k |-> k, s |-> s]

Heading(l, inl) == [kind |-> "heading", level |-> l, inl |-> inl]

Para(inl) == [kind |-> "paragraph", level |-> 0, inl |-> inl]

HtmlBlock(s) == [kind |-> "html", level |-> 0, inl |-> <<Inl("raw", s)>>]

CodeBlock(s) == [kind |-> "codeblock", level |-> 0, inl |-> <<Inl("text", s)>>]

ListOf(inl) == [kind |-> "list", level |-> 0, inl |-> inl]

\* a source line still to be promoted and tokenized
RawLine(s) == [kind |-> "raw", level |-> 0, inl |-> <<Inl("raw", s)>>]

\* source texts
TName == <<"Acme">>

TNameLocation == <<"Acme", " ", "(", "Remote", ")">>

TProse == <<"See", " ", "\\", "pagebreak", " ", "now">>

TSymbols == <<"a", "@", "b", " ", "#", "1", " ", "$", "5">>

\* Vocabularies of blocks: sections and page breaks, the page-break marker in
\* every position, and headings of every level with the other inline kinds.
VSections ==
    { Heading(1, <<Inl("text", TName)>>),
      Heading(2, <<Inl("text", TName)>>),
      Heading(2, <<Inl("text", TNameLocation)>>),
      Heading(2, <<>>),
      Para(<<Inl("text", TName)>>),
      Para(<<Inl("text", BackslashPagebreak)>>),
      Para(<<Inl("text", PagebreakDirective)>>),
      HtmlBlock(PagebreakComment) }

VMarkers ==
    { Heading(2, <<Inl("text", TName)>>),
      Heading(2, <<Inl("text", BackslashPagebreak)>>),
      Para(<<Inl("text", BackslashPagebreak)>>),
      Para(<<Inl("text", TProse)>>),
      Para(<<Inl("code", BackslashPagebreak)>>),
      CodeBlock(BackslashPagebreak),
      HtmlBlock(<<"<div>">>) }

VLevels ==
    { Heading(1, <<Inl("text", TName)>>),
      Heading(2, <<Inl("text", TNameLocation)>>),
      Heading(3, <<Inl("text", TName)>>),
      Heading(4, <<Inl("text", TName)>>),
      Heading(5, <<Inl("strong", TName)>>),
      Heading(6, <<Inl("link", TName)>>),
      Para(<<Inl("text", TSymbols), Inl("soft", <<>>), Inl("inlinehtml", <<"<br>">>),
             Inl("hard", <<>>), Inl("strike", TName)>>),
      ListOf(<<Inl("text", TName)>>) }

\* source lines the promotion rules are about; "**Acme** (Remote)",
\* "_Lead_, 2019", "_BSc_", "_Lead_,", a blank line and a line of prose
RCompany == <<"*", "*", "Acme", "*", "*", " ", "(", "Remote", ")">>

RJobUnderscore == <<"_", "Lead", "_", ",", " ", "2019">>

RJobAsterisk == <<"*", "Lead", "*", ",", " ", "2019">>

RDegreeUnderscore == <<"_", "BSc", "_">>

RDegreeAsterisk == <<"*", "BSc", "*">>

VRaw ==
    { RawLine(RCompany), RawLine(RJobUnderscore), RawLine(RDegreeUnderscore),
      RawLine(<<"_", "Lead", "_", ",">>), RawLine(<<>>), RawLine(TName) }

Vocabularies == {VSections, VMarkers, VLevels, VRaw}

SeqsUpTo(S, n) == UNION {[1..k -> S] : k \in 0..n}

Docs == UNION {SeqsUpTo(V, MaxBlocks) : V \in Vocabularies}

\* enhance_company_names over the whole content.  The source lines join into
\* one text and the rules run over it; the other blocks of the vocabularies
\* have no source line that begins with "*" or "_", where every rule begins.
EnhanceContent(doc) ==
    IF doc # <<>> /\ \A b \in 1..Len(doc) : doc[b].kind = "raw"
    THEN <<RawLine(enhance_company_names(JoinLines([b \in 1..Len(doc) |-> doc[b].inl[1].s])))>>
    ELSE doc

(***************************************************************************)
(* process_pagebreak_markers over the whole content: the replacement       *)
(* reaches every piece of text, whatever block or span it is in.           *)
(***************************************************************************)
MarkContent(doc) ==
    [b \in 1..Len(doc) |->
        [doc[b] EXCEPT !.inl =
            [n \in 1..Len(doc[b].inl) |->
                [doc[b].inl[n] EXCEPT !.s = process_pagebreak_markers(doc[b].inl[n].s)]]]]

(***************************************************************************)
(* The markdown parser (pulldown_cmark::Parser, an external crate): the    *)
(* events it yields for a block.                                           *)
(***************************************************************************)
ParseInline(it) ==
    CASE it.k = "text" -> <<Text(it.s)>>
      [] it.k = "code" -> <<Code(it.s)>>
      [] it.k = "soft" -> <<SoftBreak>>
      [] it.k = "hard" -> <<HardBreak>>
      [] it.k = "strong" -> <<Start("Strong"), Text(it.s), End("Strong")>>
      [] it.k = "emphasis" -> <<Start("Emphasis"), Text(it.s), End("Emphasis")>>
      [] it.k = "strike" -> <<Start("Strikethrough"), Text(it.s), End("Strikethrough")>>
      [] it.k = "link" -> <<StartLink(<<"https://example.com">>), Text(it.s), End("Link")>>
      [] OTHER -> <<OtherEvent("InlineHtml")>>

RECURSIVE ParseInlines(_)
ParseInlines(inl) ==
    IF inl = <<>> THEN <<>> ELSE ParseInline(Head(inl)) \o ParseInlines(Tail(inl))

\* the inline items of a line of source text: **x** is strong, _x_ and *x*
\* are emphasis, everything else is text
RECURSIVE ParseSpan(_)
ParseSpan(toks) ==
    IF toks = <<>> THEN <<>>
    ELSE LET d == toks[1]
             marks == {k \in 1..Len(toks) : toks[k] \in {"*", "_"}}
             closeStrong == {k \in 4..(Len(toks) - 1) :
                                /\ toks[k] = "*" /\ toks[k + 1] = "*"
                                /\ \A j \in 3..(k - 1) : toks[j] \notin {"*", "_"}}
             closeEm == {k \in 3..Len(toks) :
                            toks[k] = d /\ \A j \in 2..(k - 1) : toks[j] \notin {"*", "_"}}
             next == IF marks = {} THEN Len(toks) + 1
                     ELSE CHOOSE k \in marks : \A j \in marks : k <= j
         IN  IF d = "*" /\ At(toks, 2) = "*" /\ closeStrong # {}
             THEN LET k == CHOOSE k \in closeStrong : TRUE
                  IN  <<Start("Strong"), Text(SubSeq(toks, 3, k - 1)), End("Strong")>>
                      \o ParseSpan(SubSeq(toks, k + 2, Len(toks)))
             ELSE IF d \in {"*", "_"} /\ closeEm # {}
             THEN LET k == CHOOSE k \in closeEm : TRUE
                  IN  <<Start("Emphasis"), Text(SubSeq(toks, 2, k - 1)), End("Emphasis")>>
                      \o ParseSpan(SubSeq(toks, k + 1, Len(toks)))
             ELSE IF d \in {"*", "_"}
             THEN <<Text(<<d>>)>> \o ParseSpan(Tail(toks))
             ELSE <<Text(SubSeq(toks, 1, next - 1))>>
                  \o ParseSpan(SubSeq(toks, next, Len(toks)))

\* the level of the ATX heading a source line opens, 0 when it opens none
HeadingLevelOf(l) ==
    IF At(l, 1) = "#" /\ At(l, 2) = "#" /\ At(l, 3) = " " THEN 2
    ELSE IF At(l, 1) = "#" /\ At(l, 2) = "#" /\ At(l, 3) = "#" /\ At(l, 4) = " " THEN 3
    ELSE 0

\* the blocks of a source text, line by line: "## " and "### " open a heading
\* of one line, a blank line ends a paragraph, and the lines of a paragraph
\* are joined by soft breaks
RECURSIVE ParseLines(_, _, _)
ParseLines(ls, k, in_para) ==
    LET close == IF in_para THEN <<End("Paragraph")>> ELSE <<>> IN
    IF k > Len(ls) THEN close
    ELSE LET l == ls[k]
             level == HeadingLevelOf(l)
         IN  IF Trim(l) = <<>>
             THEN close \o ParseLines(ls, k + 1, FALSE)
             ELSE IF level # 0
             THEN close \o <<StartHeading(level)>> \o ParseSpan(Trim(SubSeq(l, level + 2, Len(l))))
                  \o <<EndHeading(level)>> \o ParseLines(ls, k + 1, FALSE)
             ELSE (IF in_para THEN <<SoftBreak>> ELSE <<Start("Paragraph")>>)
                  \o ParseSpan(Trim(l)) \o ParseLines(ls, k + 1, TRUE)

ParseBlock(b) ==
    CASE b.kind = "heading" ->
           <<StartHeading(b.level)>> \o ParseInlines(b.inl) \o <<EndHeading(b.level)>>
      [] b.kind = "paragraph" ->
           <<Start("Paragraph")>> \o ParseInlines(b.inl) \o <<End("Paragraph")>>
      [] b.kind = "html" -> <<Html(b.inl[1].s \o <<NL>>)>>
      [] b.kind = "codeblock" ->
           <<Start("CodeBlock"), Text(b.inl[1].s \o <<NL>>), End("CodeBlock")>>
      [] b.kind = "list" ->
           <<Start("List"), Start("Item")>> \o ParseInlines(b.inl)
           \o <<End("Item"), End("List")>>
      [] b.kind = "raw" -> ParseLines(SplitLines(b.inl[1].s), 1, FALSE)
      [] OTHER -> <<OtherEvent("Rule")>>

RECURSIVE ParseDoc(_)
ParseDoc(doc) == IF doc = <<>> THEN <<>> ELSE ParseBlock(Head(doc)) \o ParseDoc(Tail(doc))

(***************************************************************************)
(* The render: generate_typst_source from the body content on.             *)
(***************************************************************************)
GrouperIdle == /\ lines = <<>> /\ i = 1 /\ in_h2_section = FALSE /\ result = <<>>

Init ==
    /\ pc = "enhance"
    /\ theme \in Themes
    /\ content \in Docs
    /\ enhanced_content = <<>>
    /\ content_with_pagebreaks = <<>>
    /\ events = <<>>
    /\ consumed = <<>>
    /\ output = <<>>
    /\ ctx = RenderContextNew
    /\ GrouperIdle

\* let enhanced_content = Self::enhance_company_names(content)
EnhanceCompanyNames ==
    /\ pc = "enhance"
    /\ enhanced_content' = EnhanceContent(content)
    /\ pc' = "start"
    /\ UNCHANGED <<theme, content, content_with_pagebreaks, events, consumed, output, ctx, lines, i, in_h2_section, result>>

\* let content_with_pagebreaks = Self::process_pagebreak_markers(&enhanced_content)
ProcessPagebreakMarkers ==
    /\ pc = "start"
    /\ content_with_pagebreaks' = MarkContent(enhanced_content)
    /\ pc' = "parse"
    /\ UNCHANGED <<theme, content, enhanced_content, events, consumed, output, ctx, lines, i, in_h2_section, result>>

\* Parser::new_ext(..) and RenderContext::new()
Parse ==
    /\ pc = "parse"
    /\ events' = ParseDoc(content_with_pagebreaks)
    /\ ctx' = RenderContextNew
    /\ pc' = "render"
    /\ UNCHANGED <<theme, content, enhanced_content, content_with_pagebreaks, consumed, output, lines, i, in_h2_section, result>>

\* the loop body: the next event ev writes w and leaves the context c
Consume(ev, w, c) ==
    /\ events' = Tail(events)
    /\ consumed' = Append(consumed, ev)
    /\ output' = output \o w
    /\ ctx' = c
    /\ UNCHANGED <<pc, theme, content, enhanced_content, content_with_pagebreaks, lines, i, in_h2_section, result>>

RenderStart ==
    /\ pc = "render" /\ events # <<>> /\ Head(events).kind = "Start"
    /\ LET r == handle_start_tag(Head(events), ctx, theme)
       IN  r.panic = "no" /\ Consume(Head(events), r.w, r.ctx)

RenderEnd ==
    /\ pc = "render" /\ events # <<>> /\ Head(events).kind = "End"
    /\ LET r == handle_end_tag(Head(events), ctx, theme)
       IN  r.panic = "no" /\ Consume(Head(events), r.w, r.ctx)

RenderText ==
    /\ pc = "render" /\ events # <<>> /\ Head(events).kind = "Text"
    /\ Consume(Head(events), handle_text(Head(events).s, ctx, theme), ctx)

RenderCode ==
    /\ pc = "render" /\ events # <<>> /\ Head(events).kind = "Code"
    /\ Consume(Head(events), <<Backtick>> \o Head(events).s \o <<Backtick>>, ctx)

RenderSoftBreak ==
    /\ pc = "render" /\ events # <<>> /\ Head(events).kind = "SoftBreak"
    /\ Consume(Head(events), <<" ">>, ctx)

RenderHardBreak ==
    /\ pc = "render" /\ events # <<>> /\ Head(events).kind = "HardBreak"
    /\ Consume(Head(events), <<NL>>, ctx)

RenderHtml ==
    /\ pc = "render" /\ events # <<>> /\ Head(events).kind = "Html"
    /\ Consume(Head(events), handle_html(Head(events).s), ctx)

EventKinds == {"Start", "End", "Text", "Code", "SoftBreak", "HardBreak", "Html"}

\* a plausible slip: an event of no known kind is written out by its name
RenderIgnored_WritesKind ==
    /\ pc = "render" /\ events # <<>> /\ Head(events).kind \notin EventKinds
    /\ Consume(Head(events), <<Head(events).kind>>, ctx)

\* the `_ => {}` arm
RenderIgnored ==
    /\ pc = "render" /\ events # <<>> /\ Head(events).kind \notin EventKinds
    /\ Consume(Head(events), <<>>, ctx)

\* a plausible slip: the grouper does not wait for the last event
WrapH2Sections_Early ==
    /\ pc = "render"
    /\ LET ls == Lines(output)
           st == WrapLoop(ls, WrapStart)
       IN  /\ lines' = ls
           /\ i' = st.i
           /\ in_h2_section' = st.in_h2_section
           /\ result' = WrapFinish(st)
    /\ pc' = "done"
    /\ UNCHANGED <<theme, content, enhanced_content, content_with_pagebreaks, events, consumed, output, ctx>>

\* let processed_content = Self::wrap_h2_sections(&typst_content)
WrapH2Sections ==
    /\ pc = "render" /\ events = <<>>
    /\ LET ls == Lines(output)
           st == WrapLoop(ls, WrapStart)
       IN  /\ lines' = ls
           /\ i' = st.i
           /\ in_h2_section' = st.in_h2_section
           /\ result' = WrapFinish(st)
    /\ pc' = "done"
    /\ UNCHANGED <<theme, content, enhanced_content, content_with_pagebreaks, events, consumed, output, ctx>>

Next ==
    \/ EnhanceCompanyNames
    \/ ProcessPagebreakMarkers
    \/ Parse
    \/ RenderStart
    \/ RenderEnd
    \/ RenderText
    \/ RenderCode
    \/ RenderSoftBreak
    \/ RenderHardBreak
    \/ RenderHtml
    \/ RenderIgnored
    \/ WrapH2Sections

Spec == Init /\ [][Next]_vars

(***************************************************************************)
(* The section grouper on its own: wrap_h2_sections stepped one loop       *)
(* iteration at a time over an arbitrary sequence of input lines.          *)
(***************************************************************************)
LineKinds ==
    { VSpace("1.2"),
      BlockOpen("0.8"),
      TextRun(Bold14, to_typst_rgb(classic, "primary")) \o <<"Acme", "]", "]">>,
      TextRun(Bold16, to_typst_rgb(classic, "text")) \o <<"Acme", "]">>,
      PagebreakDirective,
      <<"Acme">> }

GrouperInit ==
    /\ pc = "scan"
    /\ theme = classic
    /\ content = <<>>
    /\ enhanced_content = <<>>
    /\ content_with_pagebreaks = <<>>
    /\ events = <<>>
    /\ consumed = <<>>
    /\ output = <<>>
    /\ ctx = RenderContextNew
    /\ lines \in SeqsUpTo(LineKinds, MaxLines)
    /\ i = 1
    /\ in_h2_section = FALSE
    /\ result = <<>>

\* one iteration of `while i < lines.len()`
ScanLine ==
    /\ pc = "scan"
    /\ i <= Len(lines)
    /\ LET st == WrapIteration(lines, [i |-> i, in_h2_section |-> in_h2_section,
                                       result |-> result])
       IN  /\ i' = st.i
           /\ in_h2_section' = st.in_h2_section
           /\ result' = st.result
    /\ UNCHANGED <<pc, theme, content, enhanced_content, content_with_pagebreaks, events, consumed, output, ctx, lines>>

\* the loop's exit and the closing of a remaining open section
ScanFinish ==
    /\ pc = "scan"
    /\ i > Len(lines)
    /\ result' = WrapFinish([i |-> i, in_h2_section |-> in_h2_section, result |-> result])
    /\ pc' = "scanned"
    /\ UNCHANGED <<theme, content, enhanced_content, content_with_pagebreaks, events, consumed, output, ctx, lines, i, in_h2_section>>

GrouperNext == ScanLine \/ ScanFinish

GrouperSpec == GrouperInit /\ [][GrouperNext]_vars

(***************************************************************************)
(* Reading a markup string: its lines, the grouper's markers among them,   *)
(* and the number of blocks open before a line.                            *)
(***************************************************************************)
IsOpenLine(l) == l = OpenMarker \/ l = ReopenMarker

IsCloseLine(l) == Len(l) >= Len(CloseMarker) /\ SubSeq(l, 1, Len(CloseMarker)) = CloseMarker

OpenCount(ls) == Cardinality({k \in 1..Len(ls) : IsOpenLine(ls[k])})

CloseCount(ls) == Cardinality({k \in 1..Len(ls) : IsCloseLine(ls[k])})

\* blocks open just before line p
DepthBefore(ls, p) ==
    Cardinality({k \in 1..(p - 1) : IsOpenLine(ls[k])})
    - Cardinality({k \in 1..(p - 1) : IsCloseLine(ls[k])})

\* a page-break directive: a line that is exactly #pagebreak()
DirectiveCount(ls) == Cardinality({k \in 1..Len(ls) : ls[k] = PagebreakDirective})

IsRequest(ev) ==
    \/ ev.kind = "Text" /\ Trim(ev.s) = <<Sentinel>>
    \/ ev.kind = "Html" /\ Trim(ev.s) = PagebreakComment

RequestCount(evs) == Cardinality({k \in 1..Len(evs) : IsRequest(evs[k])})

(***************************************************************************)
(* C1: the number of page-break directive lines equals the number of      *)
(* page-break requests consumed (sentinel Text events plus page-break      *)
(* comment Html events): in the transpiler's output after every event,     *)
(* and in the final markup after the section grouper; with no request      *)
(* there is no directive.                                                  *)
(***************************************************************************)
C1_DirectivesEqualRequests ==
    /\ pc = "render" => DirectiveCount(Lines(output)) = RequestCount(consumed)
    /\ pc = "done" => DirectiveCount(Lines(result)) = RequestCount(consumed)

C1_Witness ==
    /\ pc = "done"
    /\ \E k \in 1..Len(consumed) : consumed[k].kind = "Text" /\ IsRequest(consumed[k])
    /\ \E k \in 1..Len(consumed) : consumed[k].kind = "Html" /\ IsRequest(consumed[k])
    /\ \E k \in 1..Len(consumed) : consumed[k].kind = "Text" /\ ~IsRequest(consumed[k])
    /\ DirectiveCount(Lines(result)) = 2
    /\ Contains(result, ReopenMarker)

(***************************************************************************)
(* C3: for every sequence of input lines, at every scan position at most   *)
(* one keep-together block is open (the markers written so far leave one   *)
(* block open exactly when in_h2_section is set, and never two), and at    *)
(* the end every opened block is closed: as many close markers as open     *)
(* markers.                                                                *)
(***************************************************************************)
C3_AtMostOneOpenAllClosed ==
    LET ls == Lines(result) IN
    /\ pc \in {"scan", "scanned"} =>
          \A p \in 1..(Len(ls) + 1) : DepthBefore(ls, p) \in {0, 1}
    /\ pc = "scan" =>
          OpenCount(ls) - CloseCount(ls) = (IF in_h2_section THEN 1 ELSE 0)
    /\ pc = "scanned" => OpenCount(ls) = CloseCount(ls)

C3_Witness ==
    /\ pc = "scanned"
    /\ OpenCount(Lines(result)) >= 2
    /\ Contains(result, ReopenMarker)
    /\ in_h2_section

(***************************************************************************)
(* More readings of the events consumed and of the markup.                 *)
(***************************************************************************)
IsH2Start(ev) == ev.kind = "Start" /\ ev.tag = "Heading" /\ ev.level = 2

H2Count(evs) == Cardinality({k \in 1..Len(evs) : IsH2Start(evs[k])})

\* level-2 headings whose 14pt bold text run directly follows the heading start
H2WithTextRunCount(evs) ==
    Cardinality({k \in 1..(Len(evs) - 1) :
        /\ IsH2Start(evs[k])
        /\ evs[k + 1].kind = "Text"
        /\ ~IsRequest(evs[k + 1])})

StartMarkerCount(s) == CountOcc(s, <<"// Start of job entry">>)

ContinueMarkerCount(s) == CountOcc(s, <<"// Continue job entry after pagebreak">>)

EndMarkerCount(s) == CountOcc(s, <<"// End of job entry block">>)

\* every block is closed before the next opens, and the last one is closed
NonOverlapping(ls) ==
    /\ \A p \in 1..(Len(ls) + 1) : DepthBefore(ls, p) \in {0, 1}
    /\ DepthBefore(ls, Len(ls) + 1) = 0

HasDirective(l) == Contains(l, PagebreakDirective)

IsMarkerLine(l) == IsOpenLine(l) \/ IsCloseLine(l)

MarkerOf(l) == IF IsOpenLine(l) THEN "open" ELSE "close"

\* the open and close markers of a markup, in order
MarkerTrace(ls) ==
    LET marks == SelectSeq(ls, IsMarkerLine)
    IN  [k \in 1..Len(marks) |-> MarkerOf(marks[k])]

\* open / close / directive / content, without the blank and comment lines
ClassOf(l) ==
    CASE IsOpenLine(l) -> "open"
      [] IsCloseLine(l) -> "close"
      [] HasDirective(l) -> "directive"
      [] OTHER -> "content"

IsVisibleLine(l) == l # <<>> /\ l # StartComment /\ l # ContinueComment

ClassTrace(ls) ==
    LET vis == SelectSeq(ls, IsVisibleLine)
    IN  [k \in 1..Len(vis) |-> ClassOf(vis[k])]

\* "[" minus "]" in a string
Balance(s) ==
    Cardinality({k \in 1..Len(s) : s[k] = "["}) - Cardinality({k \in 1..Len(s) : s[k] = "]"})

Last(s) == s[Len(s)]

(***************************************************************************)
(* C2 (the claim as stated): wherever \pagebreak occurs in the document,   *)
(* the sentinel TYPST_PAGEBREAK_MARKER never appears in the final markup.  *)
(***************************************************************************)
C2_SentinelNeverInOutput == pc = "done" => ~Contains(result, <<Sentinel>>)

C5_BreakSplitsBlock ==
    [][ /\ (pc = "scan" /\ i <= Len(lines) /\ in_h2_section /\ HasDirective(lines[i])) =>
              /\ ClassTrace(Lines(result')) =
                    ClassTrace(Lines(result)) \o <<"close", "directive", "open">>
              /\ Last(SelectSeq(Lines(result'), IsMarkerLine)) = ReopenMarker
              /\ in_h2_section'
        /\ (pc = "scan" /\ i <= Len(lines) /\ in_h2_section /\ in_h2_section'
               /\ ~HasDirective(lines[i])) =>
              /\ DepthBefore(Lines(result'), Len(Lines(result'))) = 1
              /\ Last(Lines(result')) = lines[i]
        /\ pc' = "scanned" => DepthBefore(Lines(result'), Len(Lines(result')) + 1) = 0
      ]_vars

C5_Witness ==
    /\ pc = "scanned"
    /\ Len(lines) = 5
    /\ ClassTrace(Lines(result)) =
          <<"open", "content", "content", "content", "close",
            "directive", "open", "content", "close">>

(***************************************************************************)
(* C6: every line with the page-break directive is copied to the final     *)
(* markup unchanged and exactly once (the directive lines of the markup    *)
(* are those of the transpiler's output, in order), none of them lies      *)
(* inside a keep-together block, and a directive met while a block was     *)
(* open has that block's close before it and a new block's open after it.  *)
(***************************************************************************)
C6_DirectiveOutsideBlocks ==
    pc = "done" =>
        LET ls == Lines(result) IN
        /\ SelectSeq(ls, HasDirective) = SelectSeq(Lines(output), HasDirective)
        /\ \A p \in 1..Len(ls) : HasDirective(ls[p]) =>
              /\ DepthBefore(ls, p) = 0
              /\ (p > 2 /\ IsCloseLine(ls[p - 2]) /\ ls[p - 1] = <<>>) =>
                    (p + 2 <= Len(ls) /\ ls[p + 1] = <<>> /\ IsOpenLine(ls[p + 2]))

C6_Witness ==
    /\ pc = "done"
    /\ \E p \in 3..Len(Lines(result)) :
          /\ Lines(result)[p] = PagebreakDirective
          /\ Lines(result)[p - 2] = CloseBeforePagebreak
    /\ \E p \in 1..Len(Lines(result)) :
          /\ Lines(result)[p] = PagebreakDirective
          /\ \A q \in 1..(p - 1) : ~IsMarkerLine(Lines(result)[q])

(***************************************************************************)
(* C7 (the claim as stated): a document with two level-2 headings and no   *)
(* page-break request gives exactly two keep-together blocks, the first    *)
(* closed before the second opens.                                         *)
(***************************************************************************)
C7_TwoHeadingsTwoBlocks ==
    (pc = "done" /\ H2Count(consumed) = 2 /\ RequestCount(consumed) = 0) =>
        MarkerTrace(Lines(result)) = <<"open", "close", "open", "close">>

(***************************************************************************)
(* C8: no line of a level-1 heading (its multi-line block opener, its 16pt *)
(* bold text run) lies inside a keep-together block, and after a level-1   *)
(* heading no block is open until the next level-2 heading opens one: the  *)
(* next open marker, if any, is a level-2 heading's, not a re-opening      *)
(* after a page break.                                                     *)
(***************************************************************************)
IsH1Line(l) == Contains(l, <<Bold16>>) \/ l = <<"#", "block(">>

C8_H1OutsideBlocks ==
    pc = "done" =>
        LET ls == Lines(result) IN
        \A p \in 1..Len(ls) : IsH1Line(ls[p]) =>
            /\ DepthBefore(ls, p) = 0
            /\ \A q \in (p + 1)..Len(ls) :
                  (IsOpenLine(ls[q]) /\ \A r \in (p + 1)..(q - 1) : ~IsOpenLine(ls[r]))
                      => ls[q] = OpenMarker

C8_Witness ==
    /\ pc = "done"
    /\ LET ls == Lines(result) IN
       \E p \in 1..Len(ls) :
          /\ Contains(ls[p], <<Bold16>>)
          /\ \E q \in 1..(p - 1) : ls[q] = OpenMarker
          /\ \E q \in 1..(p - 1) : IsCloseLine(ls[q])
          /\ \E q \in (p + 1)..Len(ls) : HasDirective(ls[q])

(***************************************************************************)
(* C9 (the claim as stated): the block that wraps a level-2 heading is     *)
(* opened by a marker spelled exactly #block(breakable: false)[ and the    *)
(* heading's 14pt bold text run follows within 9 lines of that marker.     *)
(***************************************************************************)
C9_OpenMarkerSpelling ==
    pc = "done" =>
        LET ls == Lines(result) IN
        \A p \in 1..Len(ls) : Contains(ls[p], <<Bold14>>) =>
            \E q \in (p - 9)..(p - 1) : q >= 1 /\ ls[q] = ReopenMarker

(***************************************************************************)
(* C10: once a heading end has been handled, every bracket the heading's   *)
(* handlers opened is closed: the output is balanced again, for every      *)
(* level.  In a level-2 heading a Text event leaves only the heading's     *)
(* block open (its text runs are opened and closed by the Text handler);   *)
(* in a heading of another level it leaves the block and the text run.     *)
(***************************************************************************)
IsHeadingEnd(ev) == ev.kind = "End" /\ ev.tag = "Heading"

C10_HeadingBracketsClosed ==
    (pc = "render" /\ consumed # <<>>) =>
        /\ IsHeadingEnd(Last(consumed)) => (Balance(output) = 0 /\ ~ctx.in_heading)
        /\ (Last(consumed).kind = "Text" /\ ctx.in_heading /\ Len(consumed) > 1
               /\ consumed[Len(consumed) - 1].tag = "Heading") =>
              Balance(output) = (IF ctx.heading_level = 2 THEN 1 ELSE 2)

C10_Witness ==
    /\ pc = "render"
    /\ Len(consumed) >= 6
    /\ IsHeadingEnd(Last(consumed))
    /\ ctx.heading_level = 2
    /\ \E k \in 1..Len(consumed) : IsHeadingEnd(consumed[k]) /\ consumed[k].level = 1
    /\ \E k \in 1..Len(consumed) : consumed[k].kind = "Text" /\ Contains(consumed[k].s, <<"(">>)

(***************************************************************************)
(* The event transpiler on its own: the loop of render_markdown_as_typst   *)
(* over an arbitrary event sequence, balanced or not.  The handlers take   *)
(* whatever sequence they are given; only the parser keeps it balanced.    *)
(***************************************************************************)
EventVocabulary ==
    { StartHeading(1), StartHeading(2), EndHeading(2),
      Start("List"), End("List"), Start("Item"),
      Start("Paragraph"), End("Paragraph"),
      Start("Table"),
      Text(TNameLocation),
      Code(TName), SoftBreak, HardBreak,
      Html(<<"<div>">>),
      OtherEvent("Rule"), OtherEvent("TaskListMarker") }

TranspilerInit ==
    /\ pc = "render"
    /\ theme = classic
    /\ content = <<>>
    /\ enhanced_content = <<>>
    /\ content_with_pagebreaks = <<>>
    /\ events \in SeqsUpTo(EventVocabulary, MaxEvents)
    /\ consumed = <<>>
    /\ output = <<>>
    /\ ctx = RenderContextNew
    /\ GrouperIdle

\* what a Start or End event does in its handler
HandlerResult(ev, c, t) ==
    IF ev.kind = "Start" THEN handle_start_tag(ev, c, t) ELSE handle_end_tag(ev, c, t)

\* `context.list_depth -= 1` and `context.list_depth - 1` below zero: the
\* arithmetic panics where overflow checks are compiled in, and "  ".repeat
\* panics on the wrapped count where they are not
RenderAbort ==
    /\ pc = "render" /\ events # <<>> /\ Head(events).kind \in {"Start", "End"}
    /\ HandlerResult(Head(events), ctx, theme).panic \in {"checked", "always"}
    /\ pc' = "panicked"
    /\ UNCHANGED <<theme, content, enhanced_content, content_with_pagebreaks, events, consumed, output, ctx,
                   lines, i, in_h2_section, result>>

\* the same arithmetic where overflow checks are compiled out: it wraps
RenderWrapped ==
    /\ pc = "render" /\ events # <<>> /\ Head(events).kind \in {"Start", "End"}
    /\ LET r == HandlerResult(Head(events), ctx, theme)
       IN  r.panic = "checked" /\ Consume(Head(events), r.w, r.ctx)

TranspilerNext ==
    \/ RenderStart
    \/ RenderEnd
    \/ RenderText
    \/ RenderCode
    \/ RenderSoftBreak
    \/ RenderHardBreak
    \/ RenderHtml
    \/ RenderIgnored
    \/ RenderAbort
    \/ RenderWrapped

TranspilerSpec == TranspilerInit /\ [][TranspilerNext]_vars

(***************************************************************************)
(* Claims about the Text handler.                                          *)
(***************************************************************************)
\* the render loop consumes a Text event in this step
TextStep ==
    /\ pc = "render" /\ events # <<>> /\ Head(events).kind = "Text"
    /\ consumed' = Append(consumed, Head(events))

FirstParen(e) == CHOOSE k \in 1..Len(e) : e[k] = "(" /\ \A j \in 1..(k - 1) : e[j] # "("

\* a 14pt run of the given weight in the level-2 colour holding the text x
StyledRun14(weight, x) ==
    <<"#", "text(size: 14pt, weight: \"" \o weight \o "\"", ", fill: ">>
    \o get_h2_color(theme) \o <<")", "[">> \o x \o <<"]">>

\* what the claim says a Text event with source text s writes
TextExpected(s) ==
    LET e == Escape(s) IN
    IF ctx.in_heading /\ ctx.heading_level = 2
    THEN IF \E k \in 1..Len(e) : e[k] = "("
         THEN <<"  ">> \o StyledRun14("bold", Trim(SubSeq(e, 1, FirstParen(e) - 1)))
              \o <<" ">> \o StyledRun14("regular", SubSeq(e, FirstParen(e), Len(e)))
         ELSE <<"  ">> \o StyledRun14("bold", e)
    ELSE e

(***************************************************************************)
(* C11 (the claim as stated): every Text event in a level-2 heading is     *)
(* written as a bold 14pt run, or as a bold name run and a regular-weight  *)
(* location run split at the first "(", on one line; every other Text      *)
(* event is written as its escaped text.                                   *)
(***************************************************************************)
C11_TextTwoTone ==
    [][TextStep => output' = output \o TextExpected(Head(events).s)]_vars

(***************************************************************************)
(* C11 (amended): the same for every Text event whose trimmed content is   *)
(* not the page-break sentinel; the sentinel is written as the page-break  *)
(* directive wherever it arrives.                                          *)
(***************************************************************************)
C11_TextTwoToneUnlessSentinel ==
    [][TextStep =>
          LET s == Head(events).s IN
          IF Trim(s) = <<Sentinel>>
          THEN output' = output \o <<NL>> \o PagebreakDirective \o <<NL, NL>>
          ELSE /\ output' = output \o TextExpected(s)
               /\ (ctx.in_heading /\ ctx.heading_level = 2) => ~Contains(TextExpected(s), <<NL>>)]_vars

C11_Witness ==
    /\ pc = "render" /\ consumed # <<>>
    /\ Last(consumed) = Text(TNameLocation)
    /\ ctx.in_heading /\ ctx.heading_level = 2
    /\ theme = modern
    /\ Contains(output, <<"text(size: 14pt, weight: \"regular\"", ", fill: ">>)
    /\ \E k \in 2..Len(consumed) : consumed[k] = Text(TName) /\ consumed[k - 1].tag = "Paragraph"

\* the escaping stated character by character: a backslash before each of the
\* three characters, every other character as it is
RECURSIVE EscapeCharwise(_)
EscapeCharwise(s) ==
    IF s = <<>> THEN <<>>
    ELSE (IF Head(s) \in {"@", "#", "$"} THEN <<"\\", Head(s)>> ELSE <<Head(s)>>)
         \o EscapeCharwise(Tail(s))

\* the three replacements made in the order a, b, c
EscapeInOrder(s, a, b, c) ==
    Replace(Replace(Replace(s, <<a>>, <<"\\", a>>), <<b>>, <<"\\", b>>), <<c>>, <<"\\", c>>)

EscapeOrders ==
    { <<"@", "#", "$">>, <<"@", "$", "#">>, <<"#", "@", "$">>,
      <<"#", "$", "@">>, <<"$", "@", "#">>, <<"$", "#", "@">> }

\* the parts of a text that are written in one piece: the whole text, or in a
\* level-2 heading the trimmed name and the location
WrittenParts(s, in_h2) ==
    IF in_h2 /\ Find(s, "(") # 0
    THEN {Trim(SubSeq(s, 1, Find(s, "(") - 1)), SubSeq(s, Find(s, "("), Len(s))}
    ELSE {s}

(***************************************************************************)
(* C12: a Text event that is not the sentinel is written with a backslash  *)
(* added before each "@", "#" and "$" and nothing else changed; the six    *)
(* orders of the three replacements give the same text; and the escaped    *)
(* text is still there in the final markup after the section grouper.      *)
(***************************************************************************)
C12_EscapeThreeCharacters ==
    /\ [][(TextStep /\ Trim(Head(events).s) # <<Sentinel>>) =>
             LET s == Head(events).s
                 in_h2 == ctx.in_heading /\ ctx.heading_level = 2
             IN  /\ \A o \in EscapeOrders : EscapeInOrder(s, o[1], o[2], o[3]) = EscapeCharwise(s)
                 /\ ~in_h2 => output' = output \o EscapeCharwise(s)
                 /\ \A part \in WrittenParts(s, in_h2) :
                        Contains(SubSeq(output', Len(output) + 1, Len(output')),
                                 EscapeCharwise(part))]_vars
    /\ [](pc = "done" =>
             \A k \in 1..Len(consumed) :
                 (consumed[k].kind = "Text" /\ Trim(consumed[k].s) # <<Sentinel>>) =>
                     \A part \in WrittenParts(consumed[k].s, TRUE) :
                         Contains(result, EscapeCharwise(part)))

C12_Witness ==
    /\ pc = "done"
    /\ \E k \in 1..Len(consumed) : consumed[k] = Text(TSymbols)
    /\ Contains(result, <<"\\", "@", "b", " ", "\\", "#", "1", " ", "\\", "$", "5">>)

(***************************************************************************)
(* The structural promoter on its own: enhance_company_names stepped one   *)
(* replace_all at a time over a raw text of a few lines.                   *)
(***************************************************************************)
RawLineKinds ==
    { RCompany, RJobUnderscore, RJobAsterisk, RDegreeUnderscore, RDegreeAsterisk,
      <<>>,
      <<"Acme">>,
      <<"at", " ">> \o RCompany,
      <<"_", "Lead", "_", ",">>,
      <<"*", "*", "Acme">>,
      <<"Corp", "*", "*", " ", "(", "Remote", ")">>,
      <<"(", "Remote", ")">> }

RawTexts(n) == {JoinLines(ls) : ls \in SeqsUpTo(RawLineKinds, n)}

PromoterInit ==
    /\ pc = "company"
    /\ theme = classic
    /\ content \in RawTexts(MaxRawLines)
    /\ enhanced_content = content
    /\ content_with_pagebreaks = <<>>
    /\ output = <<>>
    /\ events = <<>>
    /\ consumed = <<>>
    /\ ctx = RenderContextNew
    /\ GrouperIdle

\* company_re.replace_all(..) over the text so far
CompanyRule ==
    /\ pc = "company"
    /\ enhanced_content' = replace_all("company", enhanced_content)
    /\ pc' = "job_underscore"
    /\ UNCHANGED <<theme, content, content_with_pagebreaks, events, consumed, output, ctx,
                   lines, i, in_h2_section, result>>

\* job_underscore_re.replace_all(..) over the text so far
JobUnderscoreRule ==
    /\ pc = "job_underscore"
    /\ enhanced_content' = replace_all("job_underscore", enhanced_content)
    /\ pc' = "job_asterisk"
    /\ UNCHANGED <<theme, content, content_with_pagebreaks, events, consumed, output, ctx,
                   lines, i, in_h2_section, result>>

\* job_asterisk_re.replace_all(..) over the text so far
JobAsteriskRule ==
    /\ pc = "job_asterisk"
    /\ enhanced_content' = replace_all("job_asterisk", enhanced_content)
    /\ pc' = "degree_underscore"
    /\ UNCHANGED <<theme, content, content_with_pagebreaks, events, consumed, output, ctx,
                   lines, i, in_h2_section, result>>

\* degree_underscore_re.replace_all(..) over the text so far
DegreeUnderscoreRule ==
    /\ pc = "degree_underscore"
    /\ enhanced_content' = replace_all("degree_underscore", enhanced_content)
    /\ pc' = "degree_asterisk"
    /\ UNCHANGED <<theme, content, content_with_pagebreaks, events, consumed, output, ctx,
                   lines, i, in_h2_section, result>>

\* degree_asterisk_re.replace_all(..) over the text so far
DegreeAsteriskRule ==
    /\ pc = "degree_asterisk"
    /\ enhanced_content' = replace_all("degree_asterisk", enhanced_content)
    /\ pc' = "enhanced"
    /\ UNCHANGED <<theme, content, content_with_pagebreaks, events, consumed, output, ctx,
                   lines, i, in_h2_section, result>>

PromoterNext ==
    \/ CompanyRule
    \/ JobUnderscoreRule
    \/ JobAsteriskRule
    \/ DegreeUnderscoreRule
    \/ DegreeAsteriskRule

PromoterSpec == PromoterInit /\ [][PromoterNext]_vars

\* the line, taken as a text of its own, is matched whole by the rule
LineMatches(rule, l) == Match(rule, l, 1).ok /\ Match(rule, l, 1).e = Len(l) + 1

LineMatchesAny(l) == \E k \in 1..Len(PromotionRules) : LineMatches(PromotionRules[k], l)

\* the line as its rule rewrites it
Promoted(l) ==
    LET k == CHOOSE k \in 1..Len(PromotionRules) :
                 /\ LineMatches(PromotionRules[k], l)
                 /\ \A j \in 1..(k - 1) : ~LineMatches(PromotionRules[j], l)
    IN  Replacement(PromotionRules[k], Match(PromotionRules[k], l, 1))

(***************************************************************************)
(* Claims about the structural promoter.                                   *)
(***************************************************************************)
\* the heading line of "## Acme (Remote)" as the transpiler writes it: the
\* bold name run, a blank, the regular-weight location run, the block's close
TwoToneLine(t) ==
    <<"  ", "#", "text(size: 14pt, weight: \"bold\"", ", fill: ">> \o get_h2_color(t)
    \o <<")", "[", "Acme", "]", " ">>
    \o <<"#", "text(size: 14pt, weight: \"regular\"", ", fill: ">> \o get_h2_color(t)
    \o <<")", "[", "(", "Remote", ")", "]", "]">>

\* the lines of the final markup that are that heading line inside a block
TwoToneInBlock ==
    {p \in 1..Len(Lines(result)) :
        Lines(result)[p] = TwoToneLine(theme) /\ DepthBefore(Lines(result), p) = 1}

\* the source lines of the document that are "**Acme** (Remote)"
CompanyLines == {b \in 1..Len(content) : content[b] = RawLine(RCompany)}

(***************************************************************************)
(* C13 (the claim as stated): every source line "**Acme** (Remote)" comes  *)
(* out of the whole pipeline as a level-2 heading rendered on one line,    *)
(* inside a keep-together block, as bold "Acme" and regular "(Remote)".    *)
(***************************************************************************)
C13_CompanyLineRendersTwoTone ==
    (pc = "done" /\ \A b \in 1..Len(content) : content[b].kind = "raw") =>
        Cardinality(TwoToneInBlock) = Cardinality(CompanyLines)

\* the rules that promote to a level-3 heading
JobAndDegreeRules == {"job_underscore", "job_asterisk", "degree_underscore", "degree_asterisk"}

\* the lines of the input that consist of _X_, Y or *X*, Y or _X_ or *X*
JobOrDegreeLines ==
    {k \in 1..Len(SplitLines(content)) :
        \E r \in JobAndDegreeRules : LineMatches(r, SplitLines(content)[k])}

(***************************************************************************)
(* C14 (the claim as stated): every line of the text that consists of      *)
(* _X_, Y or *X*, Y is promoted to the line ### **X**, Y and every line    *)
(* that consists of _X_ or *X* to the line ### **X**.                      *)
(***************************************************************************)
C14_JobAndDegreeLinesPromoted ==
    pc = "enhanced" =>
        \A k \in JobOrDegreeLines :
            \E j \in 1..Len(SplitLines(enhanced_content)) :
                SplitLines(enhanced_content)[j] = Promoted(SplitLines(content)[k])

\* no line of the input is matched whole by any promotion rule
NoLineMatches ==
    \A k \in 1..Len(SplitLines(content)) : ~LineMatchesAny(SplitLines(content)[k])

(***************************************************************************)
(* C15 (the claim as stated): a text in which no line matches a promotion  *)
(* rule comes out of the promoter unchanged, token for token.              *)
(***************************************************************************)
C15_NoMatchNoChange ==
    (pc = "enhanced" /\ NoLineMatches) => enhanced_content = content

(***************************************************************************)
(* C20 (the claim as stated): the promoter rewrites whole matching lines   *)
(* only.  The output has as many lines as the input (no match runs over a  *)
(* line boundary or takes a blank line with it), and every line that does  *)
(* not match a rule by itself is at its place unchanged.                   *)
(***************************************************************************)
C20_OnlyWholeLinesChange ==
    pc = "enhanced" =>
        LET in == SplitLines(content)
            out == SplitLines(enhanced_content)
        IN  /\ Len(out) = Len(in)
            /\ \A k \in 1..Len(in) : ~LineMatchesAny(in[k]) => out[k] = in[k]

(***************************************************************************)
(* Claims about the transpiler's handling of ill-formed and unknown events *)
(* and of lists.                                                           *)
(***************************************************************************)
\* the render loop consumes the event at the head of the queue in this step
ConsumeStep == pc = "render" /\ events # <<>> /\ consumed' = Append(consumed, Head(events))

C17_StrayHeadingEndIsNoOp ==
    [][(ConsumeStep /\ IsHeadingEnd(Head(events))) =>
          IF ctx.in_heading
          THEN ~ctx'.in_heading
          ELSE output' = output /\ ctx' = ctx]_vars

C17_Witness ==
    /\ pc = "render"
    /\ consumed = <<StartHeading(2), EndHeading(2), EndHeading(2)>>
    /\ ~ctx.in_heading /\ ctx.heading_level = 2
    /\ Balance(output) = 0

\* the tags handle_start_tag and handle_end_tag have an arm for
KnownStartTags ==
    {"Heading", "Paragraph", "List", "Item", "Strong", "Emphasis", "Strikethrough",
     "Link", "CodeBlock", "BlockQuote"}

KnownEndTags ==
    {"Heading", "Paragraph", "List", "Item", "Strong", "Emphasis", "Strikethrough",
     "Link", "CodeBlock", "BlockQuote"}

\* an event no arm of the render loop or of the two tag handlers recognises
IsUnrecognised(ev) ==
    \/ ev.kind \notin {"Start", "End", "Text", "Code", "SoftBreak", "HardBreak", "Html"}
    \/ ev.kind = "Html" /\ Trim(ev.s) # PagebreakComment
    \/ ev.kind = "Start" /\ ev.tag \notin KnownStartTags
    \/ ev.kind = "End" /\ ev.tag \notin KnownEndTags

(***************************************************************************)
(* C18: an event of a kind the transpiler does not recognise (a table tag, *)
(* a rule, a task-list marker, raw HTML that is not the page-break         *)
(* comment) writes nothing and leaves the context unchanged.               *)
(***************************************************************************)
C18_UnrecognisedEventIgnored ==
    [][(ConsumeStep /\ IsUnrecognised(Head(events))) => (output' = output /\ ctx' = ctx)]_vars

C18_Witness ==
    /\ pc = "render"
    /\ Len(consumed) = 3
    /\ consumed[1] = StartHeading(2)
    /\ consumed[2] \in {Start("Table"), OtherEvent("Rule"), OtherEvent("TaskListMarker")}
    /\ consumed[3] = Html(<<"<div>">>)
    /\ ctx.in_heading
    /\ Len(output) = Len(HeadingStartText(2, theme))

\* list starts minus list ends among the events
OpenLists(evs) ==
    Cardinality({k \in 1..Len(evs) : evs[k] = Start("List")})
    - Cardinality({k \in 1..Len(evs) : evs[k] = End("List")})

\* no list end without its list start, up to and including the next event
ProperlyNested(evs) == \A n \in 1..Len(evs) : OpenLists(SubSeq(evs, 1, n)) >= 0

(***************************************************************************)
(* C19: in a properly nested sequence a list start adds one to list_depth  *)
(* and writes a line break only when it takes the depth from 0 to 1; a     *)
(* list end takes one off and writes a line break only when it takes the   *)
(* depth from 1 to 0; a paragraph start or end writes a line break when    *)
(* list_depth is 0 and nothing otherwise.                                  *)
(***************************************************************************)
C19_ListAndParagraphBreaks ==
    [][(ConsumeStep /\ ProperlyNested(Append(consumed, Head(events)))) =>
          LET ev == Head(events) IN
          /\ ev = Start("List") =>
                /\ ctx'.list_depth = ctx.list_depth + 1
                /\ output' = output \o (IF ctx.list_depth = 0 THEN <<NL>> ELSE <<>>)
          /\ ev = End("List") =>
                /\ ctx'.list_depth = ctx.list_depth - 1
                /\ output' = output \o (IF ctx.list_depth = 1 THEN <<NL>> ELSE <<>>)
          /\ ev \in {Start("Paragraph"), End("Paragraph")} =>
                /\ ctx' = ctx
                /\ output' = output \o (IF ctx.list_depth = 0 THEN <<NL>> ELSE <<>>)
          /\ ctx.list_depth = OpenLists(consumed)]_vars

C19_Witness ==
    /\ pc = "render"
    /\ consumed = <<Start("List"), Start("List"), End("List")>>
    /\ ctx.list_depth = 1
    /\ output = <<NL>>

(***************************************************************************)
(* Claims about the order of the promotion rules.                          *)
(***************************************************************************)
\* the spans [from, to) of the text that replace_all(rule, ..) replaces
RECURSIVE MatchSpansFrom(_, _, _)
MatchSpansFrom(rule, s, p) ==
    IF p > Len(s) THEN {}
    ELSE LET m == Match(rule, s, p)
         IN  IF m.ok
             THEN {<<p, m.e>>} \cup MatchSpansFrom(rule, s, m.e)
             ELSE MatchSpansFrom(rule, s, p + 1)

\* the rule about to run; the positions of PromoterSpec carry the rules' names
RuleAboutToRun == pc \in {PromotionRules[k] : k \in 1..Len(PromotionRules)}

\* no heading mark in the input: every "#" of the running text was written
\* by a rule's replacement
NoMarkInInput == ~Contains(content, <<"#">>)

(***************************************************************************)
(* C21 (the claim as stated): the rules run one after another over the     *)
(* running text, and no rule matches text that an earlier rule's           *)
(* replacement produced: when a rule is about to run on a text that had no *)
(* heading mark at the start, none of the spans it replaces holds one.     *)
(***************************************************************************)
C21_NoRuleMatchesPromotedText ==
    (RuleAboutToRun /\ NoMarkInInput) =>
        \A sp \in MatchSpansFrom(pc, enhanced_content, 1) :
            ~Contains(SubSeq(enhanced_content, sp[1], sp[2] - 1), <<"#">>)

(***************************************************************************)
(* Claims about the end of a heading.                                      *)
(***************************************************************************)
\* the render loop consumes a heading end while in_heading is set
HeadingEndStep == ConsumeStep /\ IsHeadingEnd(Head(events)) /\ ctx.in_heading

\* what the step appends to the output
Written == SubSeq(output', Len(output) + 1, Len(output'))

\* "]", the separator line in the given colour, the block's "]", "#v(0.2em)"
H1EndExpected(t, colour) ==
    <<"]">>
    \o <<NL, "  ", "#", "line(length: 100%, stroke: ", get_separator_thickness(t), "pt + ">>
    \o colour \o <<")", NL>>
    \o <<"]", NL>>
    \o <<"#", "v", "(", "0.2", "em", ")", NL>>

\* neither a separator line nor a vertical space in the text
NoSeparatorNoSpace(w) ==
    /\ ~Contains(w, <<"line(length: 100%, stroke: ">>)
    /\ ~Contains(w, <<"#", "v", "(">>)

(***************************************************************************)
(* C22 (the claim as stated): the end of a level-1 heading writes, in this *)
(* order, the close of the text run, a separator line in the level-1       *)
(* heading colour with the theme's separator thickness, the close of the   *)
(* block and a small vertical space, and clears in_heading; the end of a   *)
(* heading of another level writes no separator line and no vertical space.*)
(***************************************************************************)
C22_SeparatorInH1Colour ==
    [][HeadingEndStep =>
          /\ ~ctx'.in_heading
          /\ IF ctx.heading_level = 1
             THEN Written = H1EndExpected(theme, get_h1_color(theme))
             ELSE NoSeparatorNoSpace(Written)]_vars

(***************************************************************************)
(* C22 (amended): the same order, with the separator line drawn in the     *)
(* theme's accent colour.                                                  *)
(***************************************************************************)
C22_SeparatorInAccentColour ==
    [][HeadingEndStep =>
          /\ ~ctx'.in_heading
          /\ IF ctx.heading_level = 1
             THEN Written = H1EndExpected(theme, to_typst_rgb(theme, "accent"))
             ELSE NoSeparatorNoSpace(Written)]_vars

C22_Witness ==
    /\ pc = "render"
    /\ theme = modern
    /\ consumed = <<StartHeading(1), Text(TName), EndHeading(1), StartHeading(3), Text(TName), EndHeading(3)>>
    /\ ~ctx.in_heading
    /\ Contains(output, <<"]", NL, "  ", "#", "line(length: 100%, stroke: ", "1", "pt + ",
                          "rgb(\"", "#FF6B35", "\")", ")", NL, "]", NL, "#", "v", "(", "0.2", "em", ")", NL>>)
    /\ CountOcc(output, <<"line(length: 100%, stroke: ">>) = 1

(***************************************************************************)
(* The style resolver on its own: the getters of ColorTheme asked for the  *)
(* style of a heading level, a few times against one theme.  The theme is  *)
(* the classic one with every optional field either absent or set.  Here   *)
(* events holds the levels still to be asked for, consumed the levels      *)
(* asked for, and output the styles returned, in order.                    *)
(***************************************************************************)
StyleThemes ==
    { [primary |-> "#2C3E50", accent |-> "#8B0000", text |-> "#2C2C2C",
       h1_color |-> c1, h2_color |-> c2, h3_color |-> c3,
       separator_thickness |-> th,
       h1_spacing_above |-> a1, h1_spacing_below |-> b1,
       h2_spacing_above |-> a2, h2_spacing_below |-> b2,
       h3_spacing_above |-> a3, h3_spacing_below |-> b3] :
        c1 \in {None, "#111111"}, c2 \in {None, "#222222"}, c3 \in {None, "#333333"},
        th \in {None, "3"},
        a1 \in {None, "4.1"}, b1 \in {None, "5.1"},
        a2 \in {None, "4.2"}, b2 \in {None, "5.2"},
        a3 \in {None, "4.3"}, b3 \in {None, "5.3"} }

ResolverInit ==
    /\ pc = "resolve"
    /\ theme \in StyleThemes
    /\ content = <<>>
    /\ enhanced_content = <<>>
    /\ content_with_pagebreaks = <<>>
    /\ events \in SeqsUpTo(1..3, MaxCalls)
    /\ consumed = <<>>
    /\ output = <<>>
    /\ ctx = RenderContextNew
    /\ GrouperIdle

\* one lookup: the getters take &self and return owned values
ResolveStyle ==
    /\ pc = "resolve" /\ events # <<>>
    /\ output' = Append(output, ThemeStyle(Head(events), theme))
    /\ consumed' = Append(consumed, Head(events))
    /\ events' = Tail(events)
    /\ UNCHANGED <<pc, theme, content, enhanced_content, content_with_pagebreaks, ctx,
                   lines, i, in_h2_section, result>>

ResolverNext == ResolveStyle

ResolverSpec == ResolverInit /\ [][ResolverNext]_vars

(***************************************************************************)
(* Claims about the style resolver.                                        *)
(***************************************************************************)
\* the optional field f of the theme, or d when it is absent
FieldOr(t, f, d) == IF t[f] = None THEN d ELSE t[f]

\* a colour as Typst takes it
Rgb(hex) == <<"rgb(\"", hex, "\")">>

\* the documented style of a level: the theme's own values where present,
\* the text colour for levels 1 and 3, the primary colour for level 2, 2pt
\* for the separator, and the fixed spacings
StyleExpected(level, t) ==
    CASE level = 1 ->
           [color |-> Rgb(FieldOr(t, "h1_color", t.text)),
            spacing_above |-> FieldOr(t, "h1_spacing_above", "1.5"),
            spacing_below |-> FieldOr(t, "h1_spacing_below", "0.8"),
            separator_thickness |-> FieldOr(t, "separator_thickness", "2")]
      [] level = 2 ->
           [color |-> Rgb(FieldOr(t, "h2_color", t.primary)),
            spacing_above |-> FieldOr(t, "h2_spacing_above", "1.2"),
            spacing_below |-> FieldOr(t, "h2_spacing_below", "0.8")]
      [] level = 3 ->
           [color |-> Rgb(FieldOr(t, "h3_color", t.text)),
            spacing_above |-> FieldOr(t, "h3_spacing_above", "0.8"),
            spacing_below |-> FieldOr(t, "h3_spacing_below", "0.6")]

(***************************************************************************)
(* C23: a style lookup returns the theme's own value for every optional    *)
(* field that is present and the documented default for every absent one   *)
(* (level-1 colour: the text colour; level-2 colour: the primary colour;   *)
(* separator thickness and the spacings: fixed constants); it leaves the   *)
(* theme unchanged, and it returns what every earlier lookup of the same   *)
(* level returned.                                                         *)
(***************************************************************************)
C23_StyleDefaults ==
    [][(pc = "resolve" /\ events # <<>> /\ Len(output') = Len(output) + 1) =>
          /\ theme' = theme
          /\ output'[Len(output')] = StyleExpected(Head(events), theme)
          /\ \A k \in 1..Len(output) :
                consumed[k] = Head(events) => output[k] = output'[Len(output')]]_vars

C23_Witness ==
    /\ pc = "resolve"
    /\ theme.h1_color = None /\ theme.h2_color = None /\ theme.separator_thickness = None
    /\ theme.h2_spacing_above = "4.2" /\ theme.h2_spacing_below = None
    /\ consumed = <<2, 2>>
    /\ output[1] = output[2]
    /\ output[2] = [color |-> <<"rgb(\"", "#2C3E50", "\")">>,
                    spacing_above |-> "4.2", spacing_below |-> "0.8"]

(***************************************************************************)
(* Renders one after another: generate_typst_source called again when a    *)
(* render is done, with another document and theme.  Every local of the    *)
(* call before is gone; the cell that held its RenderContext keeps what    *)
(* was left in it until the new render builds its own.                     *)
(***************************************************************************)
\* prose that spells out markup of the transpiler's own, after headings of
\* the levels next to level 2: "Use text(size: 14pt, weight: "bold"",
\* "#v(1em)" and "Use text(size: 16pt, weight: "bold""
TBoldRunProse == <<"Use", " ", Bold14>>

TVSpaceProse == <<"#", "v", "(", "1", "em", ")">>

THeadRunProse == <<"Use", " ", Bold16>>

VProse ==
    { Heading(1, <<Inl("text", TName)>>),
      Heading(2, <<Inl("text", TName)>>),
      Heading(3, <<Inl("text", TName)>>),
      Heading(4, <<Inl("text", TName)>>),
      Para(<<Inl("text", TBoldRunProse)>>),
      Para(<<Inl("text", THeadRunProse)>>),
      Para(<<Inl("text", TVSpaceProse)>>),
      Para(<<Inl("text", TName)>>) }

RenderDocs == UNION {SeqsUpTo(V, MaxRenderBlocks) : V \in Vocabularies \cup {VProse}}

\* the documents of the renders after the first: one block at most
FollowingDocs == {d \in RenderDocs : Len(d) <= 1}

RendersInit ==
    /\ pc = "enhance"
    /\ theme \in Themes
    /\ content \in RenderDocs
    /\ enhanced_content = <<>>
    /\ content_with_pagebreaks = <<>>
    /\ events = <<>>
    /\ consumed = <<>>
    /\ output = <<>>
    /\ ctx = RenderContextNew
    /\ GrouperIdle

\* the next call of generate_typst_source
NextRender ==
    /\ pc = "done"
    /\ pc' = "enhance"
    /\ theme' \in Themes
    /\ content' \in FollowingDocs
    /\ enhanced_content' = <<>>
    /\ content_with_pagebreaks' = <<>>
    /\ events' = <<>>
    /\ consumed' = <<>>
    /\ output' = <<>>
    /\ lines' = <<>> /\ i' = 1 /\ in_h2_section' = FALSE /\ result' = <<>>
    /\ UNCHANGED ctx

RendersNext ==
    \/ EnhanceCompanyNames
    \/ ProcessPagebreakMarkers
    \/ Parse
    \/ RenderStart
    \/ RenderEnd
    \/ RenderText
    \/ RenderCode
    \/ RenderSoftBreak
    \/ RenderHardBreak
    \/ RenderHtml
    \/ RenderIgnored
    \/ WrapH2Sections
    \/ NextRender

RendersSpec == RendersInit /\ [][RendersNext]_vars

(***************************************************************************)
(* Claims about the order of the stages.                                   *)
(***************************************************************************)
\* the stages by the position they run at: promoter, marker preprocessor,
\* tokenizer, transpiler with the grouper as its last step, the next render
StageOrder ==
    { <<"enhance", "start">>, <<"start", "parse">>, <<"parse", "render">>,
      <<"render", "done">>, <<"done", "enhance">> }

(***************************************************************************)
(* C24: in every render the stages run in the order promoter, marker       *)
(* preprocessor, tokenizer, transpiler, grouper.  No stage before the      *)
(* transpiler writes output or grouper state; the transpiler starts on a   *)
(* fresh context (list_depth 0, in_heading false, level 1) and an empty    *)
(* output whatever the render before left; while it consumes events the    *)
(* grouper's state is untouched and empty; the grouper runs only when no   *)
(* event is left and changes neither the output nor the context.           *)
(***************************************************************************)
C24_StagesInOrder ==
    [][/\ pc' # pc => <<pc, pc'>> \in StageOrder
       /\ pc \in {"enhance", "start", "parse"} =>
             /\ output' = output /\ consumed' = consumed
             /\ UNCHANGED <<lines, i, in_h2_section, result>>
       /\ pc = "start" => enhanced_content' = enhanced_content
       /\ pc = "parse" =>
             /\ UNCHANGED <<enhanced_content, content_with_pagebreaks>>
             /\ ctx' = RenderContextNew /\ output' = <<>>
       /\ (pc = "render" /\ pc' = "render") =>
             /\ events # <<>> /\ Len(consumed') = Len(consumed) + 1
             /\ result = <<>> /\ lines = <<>>
             /\ UNCHANGED <<lines, i, in_h2_section, result>>
       /\ (pc = "render" /\ pc' = "done") =>
             /\ events = <<>>
             /\ lines' = Lines(output)
             /\ UNCHANGED <<output, ctx, consumed>>]_vars

\* a second render about to build its context: the cell still holds the
\* heading level the render before ended on
C24_Witness ==
    /\ pc = "parse"
    /\ ctx.heading_level = 2 /\ ~ctx.in_heading /\ ctx.list_depth = 0
    /\ content_with_pagebreaks # <<>>
    /\ output = <<>> /\ consumed = <<>> /\ result = <<>>

(***************************************************************************)
(* Claims about what the grouper copies and what it inserts.               *)
(***************************************************************************)
\* the lines the grouper writes of its own: the markers, their comments and
\* the blank lines around them
InsertedLines ==
    { CloseMarker, CloseBeforePagebreak, OpenMarker, ReopenMarker,
      StartComment, ContinueComment, <<>> }

\* the lines a step adds to the result
NewLines == SubSeq(Lines(result'), Len(Lines(result)) + 1, Len(Lines(result')))

(***************************************************************************)
(* C25: the grouper copies every input line once, verbatim and in order.   *)
(* Every scan step keeps the lines written so far, moves on by one input   *)
(* line, and adds that line unchanged together with nothing but lines of   *)
(* its own (markers, comments, blank lines); the final step adds only      *)
(* lines of its own.                                                       *)
(***************************************************************************)
C25_LinesCopiedVerbatim ==
    [][pc = "scan" =>
          /\ SubSeq(Lines(result'), 1, Len(Lines(result))) = Lines(result)
          /\ IF i <= Len(lines)
             THEN /\ i' = i + 1
                  /\ \E k \in 1..Len(NewLines) :
                        /\ NewLines[k] = lines[i]
                        /\ \A j \in 1..Len(NewLines) : j # k => NewLines[j] \in InsertedLines
             ELSE \A j \in 1..Len(NewLines) : NewLines[j] \in InsertedLines]_vars

\* a finished scan of a level-2 section with a page break in it: six lines of
\* the grouper's own around the five input lines, which are all still there
C25_Witness ==
    /\ pc = "scanned"
    /\ Len(lines) = 5
    /\ IsH2At(lines, 1)
    /\ lines[4] = PagebreakDirective
    /\ Len(Lines(result)) > Len(lines) + 5
    /\ SelectSeq(Lines(result), LAMBDA l : l \notin InsertedLines) = lines

(***************************************************************************)
(* Claims about what opens, closes and splits a block.                     *)
(***************************************************************************)
\* the positions of the final markup where a block is opened for a section
OpenedAt == {p \in 1..Len(Lines(result)) : Lines(result)[p] = OpenMarker}

(***************************************************************************)
(* C26 (the claim as stated): only a level-2 heading start opens a         *)
(* keep-together block.  Every open marker of the final markup stands      *)
(* right before the vertical space and the block line of a level-2 heading *)
(* start, and there are no more open markers than level-2 heading starts;  *)
(* the start of a heading of another level opens none, whatever follows.   *)
(***************************************************************************)
C26_OnlyH2StartOpensBlock ==
    pc = "done" =>
        /\ \A p \in OpenedAt :
              /\ p + 3 <= Len(Lines(result))
              /\ Lines(result)[p + 2] = VSpace(get_h2_spacing_above(theme))
              /\ Lines(result)[p + 3] = BlockOpen(get_h2_spacing_below(theme))
        /\ Cardinality(OpenedAt) <= H2Count(consumed)

(***************************************************************************)
(* C27 (the claim as stated): the scan step that opens a block for a       *)
(* level-2 heading does not close it again: after every open marker and    *)
(* its comment come the heading's vertical space, block line and text      *)
(* line, and none of the four lines after the marker is a close marker.    *)
(***************************************************************************)
C27_OpenedBlockStaysOpen ==
    pc = "done" =>
        \A p \in OpenedAt :
            /\ p + 4 <= Len(Lines(result))
            /\ \A q \in (p + 1)..(p + 4) : ~IsCloseLine(Lines(result)[q])

\* the positions of the final markup where a block is closed for a page break
SplitAt == {p \in 1..Len(Lines(result)) : Lines(result)[p] = CloseBeforePagebreak}

\* the heading starts among the events
HeadingStartCount(evs) ==
    Cardinality({k \in 1..Len(evs) : evs[k].kind = "Start" /\ evs[k].tag = "Heading"})

(***************************************************************************)
(* C28 (the claim as stated): the grouper splits a block only at a         *)
(* directive the transpiler wrote for a page-break request, and opens or   *)
(* closes one only at a heading the transpiler wrote; the text of a Text   *)
(* event does neither.  So the final markup has no more splits than there  *)
(* were page-break requests, no more open markers than level-2 heading     *)
(* starts, and no marker at all when the events hold no heading start.     *)
(***************************************************************************)
C28_TextNeverMovesBlocks ==
    pc = "done" =>
        /\ Cardinality(SplitAt) <= RequestCount(consumed)
        /\ Cardinality(OpenedAt) <= H2Count(consumed)
        /\ HeadingStartCount(consumed) = 0 => MarkerTrace(Lines(result)) = <<>>

(***************************************************************************)
(* C29 (the claim as stated): the promoter is idempotent.  Applied to its  *)
(* own output it returns that output unchanged, and every line a rule      *)
(* wrote starts with a heading mark, where no rule matches.                *)
(***************************************************************************)
C29_PromoterIdempotent ==
    pc = "enhanced" => enhance_company_names(enhanced_content) = enhanced_content

(***************************************************************************)
(* Claims about the render context over well-formed event sequences.       *)
(***************************************************************************)
\* the headings and lists open after the events, innermost last: a list is
\* 0, a heading its level; <<-1>> when an end has no matching start or a
\* heading starts inside a heading
RECURSIVE OpenAfter(_, _)
OpenAfter(evs, stack) ==
    IF evs = <<>> \/ stack = <<-1>> THEN stack
    ELSE LET ev == Head(evs)
             top == IF stack = <<>> THEN -1 ELSE stack[Len(stack)]
             pop == SubSeq(stack, 1, Len(stack) - 1)
         IN  CASE ev = Start("List") -> OpenAfter(Tail(evs), Append(stack, 0))
               [] ev = End("List") ->
                    IF top = 0 THEN OpenAfter(Tail(evs), pop) ELSE <<-1>>
               [] ev.kind = "Start" /\ ev.tag = "Heading" ->
                    IF \E k \in 1..Len(stack) : stack[k] > 0 THEN <<-1>>
                    ELSE OpenAfter(Tail(evs), Append(stack, ev.level))
               [] ev.kind = "End" /\ ev.tag = "Heading" ->
                    IF top = ev.level THEN OpenAfter(Tail(evs), pop) ELSE <<-1>>
               [] OTHER -> OpenAfter(Tail(evs), stack)

\* every heading start and list start has its matching end, properly nested
WellFormed(evs) == OpenAfter(evs, <<>>) = <<>>

ListsOpen(evs) == Len(SelectSeq(OpenAfter(evs, <<>>), LAMBDA x : x = 0))

HeadingOpen(evs) == \E k \in 1..Len(OpenAfter(evs, <<>>)) : OpenAfter(evs, <<>>)[k] > 0

InLevel2Heading(evs) == \E k \in 1..Len(OpenAfter(evs, <<>>)) : OpenAfter(evs, <<>>)[k] = 2

(***************************************************************************)
(* C30: over a well-formed event sequence, after every event list_depth is *)
(* the number of lists open and in_heading is true exactly when a heading  *)
(* is open; after the last event list_depth is 0 and in_heading is false;  *)
(* and a Text event outside a level-2 heading is written as its escaped    *)
(* text (or as the page-break directive), never in the level-2 styling.    *)
(***************************************************************************)
C30_ContextTracksNesting ==
    [][(ConsumeStep /\ WellFormed(consumed \o events)) =>
          /\ ctx'.list_depth = ListsOpen(consumed')
          /\ ctx'.in_heading = HeadingOpen(consumed')
          /\ events' = <<>> => (ctx'.list_depth = 0 /\ ~ctx'.in_heading)
          /\ (Head(events).kind = "Text" /\ ~InLevel2Heading(consumed)) =>
                Written = (IF Trim(Head(events).s) = <<Sentinel>>
                           THEN <<NL>> \o PagebreakDirective \o <<NL, NL>>
                           ELSE EscapeCharwise(Head(events).s))]_vars

\* a level-2 heading opened and closed, then a Text event: written plain
C30_Witness ==
    /\ pc = "render"
    /\ events = <<>>
    /\ consumed = <<StartHeading(2), EndHeading(2), Text(TNameLocation)>>
    /\ ctx.list_depth = 0 /\ ~ctx.in_heading /\ ctx.heading_level = 2
    /\ ~Contains(output, <<Bold14>>)
    /\ SubSeq(output, Len(output) - 4, Len(output)) = TNameLocation

====
